---- MODULE Spec2Model ----
(***************************************************************************)
(* The digiposte backend of rclone: the tree cache of folders (f.tree),    *)
(* the path resolver (Fs.GetFolder) and the filesystem verbs that call the *)
(* remote store and then patch the cache.                                  *)
(*                                                                         *)
(* A name is a sequence of one-character strings, a path is a sequence of  *)
(* names (the segments between the slashes).  Folder identifiers are       *)
(* naturals; 0 stands for the root's InternalID "".  The remote store      *)
(* (github.com/holyhope/digiposte-go-sdk) is not part of the repository:   *)
(* it is modelled from the interface the specification gives for it.       *)
(* Remote names are never "." or "..".                                     *)
(***************************************************************************)
EXTENDS Integers, Sequences, FiniteSets, TLC

VARIABLES
    tree,      \* f.tree: the cache (NoTree when f.tree == nil)
    remote,    \* the remote store: folders, live documents, id counters
    last,      \* the last call made on the Fs: verb, arguments, result, remote calls
    alive,     \* FALSE once a goroutine has panicked
    nops,      \* number of calls made so far
    pc,        \* per goroutine: where it is in its current call
    held,      \* per goroutine: how it holds f.lock ("none", "R", "W")
    verb,      \* per goroutine: the verb it is running
    seen,      \* per goroutine: the cache as it was when the body started
    outside    \* folders another client has created in the remote store

seqVars  == <<tree, remote, last, alive, nops>>
lockVars == <<pc, held, verb, seen>>
vars     == <<tree, remote, last, alive, nops, pc, held, verb, seen, outside>>

----------------------------------------------------------------------------
(* Bounds *)

MaxOps     == 2   \* calls in one behaviour of Spec
MaxFolders == 7   \* folder identifiers the remote hands out
MaxDocs    == 4   \* document identifiers the remote hands out
MaxDepth   == 2   \* length of the directory paths the callers pass
MaxConcOps == 3   \* calls in one behaviour of SpecLock and of SpecLocked
MaxPathLen == 4   \* characters of the path strings resolved in SpecResolve

NameA == <<"a">>
NameB == <<"b">>
Names == {NameA, NameB}
Procs == {1, 2}

----------------------------------------------------------------------------
(* Path codec and path helpers *)

SlashReplacement == "_"

remote2Local(s) == [i \in DOMAIN s |-> IF s[i] = "/" THEN SlashReplacement ELSE s[i]]

local2Remote(s) == [i \in DOMAIN s |-> IF s[i] = SlashReplacement THEN "/" ELSE s[i]]

Dot == <<".">>

\* path.Dir of a slash-joined path without leading slash: "." when there is
\* no slash in it.
PathDir(p) == IF Len(p) <= 1 THEN <<Dot>> ELSE SubSeq(p, 1, Len(p) - 1)

\* path.Base: "." for the empty path.
PathBase(p) == IF Len(p) = 0 THEN Dot ELSE p[Len(p)]

\* path.Join(dir, name) for a name that holds no slash.
PathJoin(dir, nm) == Append(dir, nm)

RECURSIVE SeqsUpTo(_)
SeqsUpTo(n) ==
    IF n = 0 THEN {<<>>}
    ELSE LET S == SeqsUpTo(n - 1)
         IN  S \cup {Append(s, x) : s \in {t \in S : Len(t) = n - 1}, x \in Names}

DirPaths == SeqsUpTo(MaxDepth)

----------------------------------------------------------------------------
(* The tree cache *)

Root == 0
NotFound == -1

NoTree == [built |-> FALSE, kids |-> <<>>, cnt |-> <<>>, name |-> <<>>]

RECURSIVE SortedSeq(_)
SortedSeq(S) ==
    IF S = {} THEN <<>>
    ELSE LET m == CHOOSE x \in S : \A y \in S : x <= y
         IN  <<m>> \o SortedSeq(S \ {m})

SeqRange(s) == {s[i] : i \in DOMAIN s}

\* The documents the remote holds directly in folder id (trashed ones are
\* not kept in remote.docs).
DocsIn(r, id) == {d \in DOMAIN r.docs : r.docs[d].parent = id}

FoldersIn(r, id) == {g \in DOMAIN r.fold : r.fold[g].parent = id}

RECURSIVE documentsTotalCount(_, _)
\* documentsTotalCount as it would be without the loop over folder.Folders.
documentsTotalCountOwnOnly(t, n) == t.cnt[n]

documentsTotalCount(t, n) ==
    LET RECURSIVE Rest(_)
        Rest(s) == IF s = <<>> THEN 0
                   ELSE documentsTotalCount(t, Head(s)) + Rest(Tail(s))
    IN  t.cnt[n] + Rest(t.kids[n])

RECURSIVE Reach(_, _)
Reach(t, n) == {n} \cup UNION {Reach(t, c) : c \in SeqRange(t.kids[n])}

\* Nodes no children list leads to any more are garbage.
Prune(t) ==
    IF ~t.built THEN t
    ELSE LET R == Reach(t, Root)
         IN  [built |-> TRUE,
              kids  |-> [n \in R |-> t.kids[n]],
              cnt   |-> [n \in R |-> t.cnt[n]],
              name  |-> [n \in R |-> t.name[n]]]

\* The lookup of a child as it would be without the break of the inner loop
\* of GetFolder: the last child named nm.
LastChild(t, node, nm) ==
    LET ks == t.kids[node]
        I  == {i \in DOMAIN ks : t.name[ks[i]] = nm}
    IN  IF I = {} THEN NotFound
        ELSE ks[CHOOSE i \in I : \A j \in I : i >= j]

\* The first child of node, in children-list order, named nm.
FirstChild(t, node, nm) ==
    LET ks == t.kids[node]
        I  == {i \in DOMAIN ks : t.name[ks[i]] = nm}
    IN  IF I = {} THEN NotFound
        ELSE ks[CHOOSE i \in I : \A j \in I : i <= j]

RECURSIVE Descend(_, _, _)
Descend(t, node, p) ==
    IF p = <<>> THEN node
    ELSE LET seg == local2Remote(remote2Local(Head(p)))
             c   == FirstChild(t, node, seg)
         IN  IF c = NotFound THEN NotFound ELSE Descend(t, c, Tail(p))

\* GetFolder as it would be if it took turns between the first and the
\* last child of a name from one call to the next.
RECURSIVE DescendLast(_, _, _)
DescendLast(t, node, p) ==
    IF p = <<>> THEN node
    ELSE LET seg == local2Remote(remote2Local(Head(p)))
             c   == LastChild(t, node, seg)
         IN  IF c = NotFound THEN NotFound ELSE DescendLast(t, c, Tail(p))

GetFolderTakingTurns(t, p) ==
    IF p = <<>> THEN Root
    ELSE IF nops % 2 = 0 THEN Descend(t, Root, p) ELSE DescendLast(t, Root, p)

\* Fs.GetFolder on a built tree: the root for the empty path.
GetFolder(t, p) == IF p = <<>> THEN Root ELSE Descend(t, Root, p)

\* strings.Trim(s, "/") on a string given as its characters.
RECURSIVE TrimSlashes(_)
TrimSlashes(s) ==
    IF s = <<>> THEN s
    ELSE IF Head(s) = "/" THEN TrimSlashes(Tail(s))
    ELSE IF s[Len(s)] = "/" THEN TrimSlashes(SubSeq(s, 1, Len(s) - 1))
    ELSE s

\* strings.Split(s, "/"): the segments between the slashes, empty ones
\* included; one empty segment for the empty string.
RECURSIVE SplitSlash(_)
SplitSlash(s) ==
    LET I == {i \in DOMAIN s : s[i] = "/"}
    IN  IF I = {} THEN <<s>>
        ELSE LET i == CHOOSE k \in I : \A j \in I : k <= j
             IN  <<SubSeq(s, 1, i - 1)>> \o SplitSlash(SubSeq(s, i + 1, Len(s)))

\* Fs.GetFolder on the path string it is called with.
GetFolderOfString(t, s) ==
    LET trimmed == TrimSlashes(s)
    IN  IF trimmed = <<>> THEN Root ELSE GetFolder(t, SplitSlash(trimmed))

----------------------------------------------------------------------------
(* The remote store, from the interface the backend consumes.  A call on   *)
(* an identifier the store does not hold fails.                            *)

FolderExists(r, id) == id = Root \/ id \in DOMAIN r.fold

RECURSIVE Descendants(_, _)
Descendants(r, g) == {g} \cup UNION {Descendants(r, c) : c \in FoldersIn(r, g)}

clientCreateFolder(r, parent, nm) ==
    [r EXCEPT !.fold  = [g \in DOMAIN r.fold \cup {r.nextF} |->
                            IF g = r.nextF THEN [parent |-> parent, name |-> nm]
                            ELSE r.fold[g]],
              !.nextF = r.nextF + 1]

clientCreateDocument(r, parent, nm) ==
    [r EXCEPT !.docs  = [d \in DOMAIN r.docs \cup {r.nextD} |->
                            IF d = r.nextD THEN [parent |-> parent, name |-> nm]
                            ELSE r.docs[d]],
              !.nextD = r.nextD + 1]

\* CopyDocuments: the copy lands beside its source, under the same name.
clientCopyDocuments(r, d) == clientCreateDocument(r, r.docs[d].parent, r.docs[d].name)

\* Delete: the documents, and the folders with all they hold.
clientDelete(r, docs, folders) ==
    LET gone == UNION {Descendants(r, g) : g \in folders \cap DOMAIN r.fold}
        keep == {d \in DOMAIN r.docs : d \notin docs /\ r.docs[d].parent \notin gone}
    IN  [r EXCEPT !.fold = [g \in DOMAIN r.fold \ gone |-> r.fold[g]],
                  !.docs = [d \in keep |-> r.docs[d]]]

\* Trash: a trashed document is no longer among the live documents.
clientTrash(r, docs) == [r EXCEPT !.docs = [d \in DOMAIN r.docs \ docs |-> r.docs[d]]]

clientCanMove(r, dest, docs, folders) ==
    /\ FolderExists(r, dest)
    /\ docs \subseteq DOMAIN r.docs
    /\ folders \subseteq DOMAIN r.fold
    /\ \A g \in folders : dest \notin Descendants(r, g)

clientMove(r, dest, docs, folders) ==
    [r EXCEPT !.fold = [g \in DOMAIN r.fold |->
                           IF g \in folders THEN [r.fold[g] EXCEPT !.parent = dest]
                           ELSE r.fold[g]],
              !.docs = [d \in DOMAIN r.docs |->
                           IF d \in docs THEN [r.docs[d] EXCEPT !.parent = dest]
                           ELSE r.docs[d]]]

clientRenameDocument(r, d, nm) == [r EXCEPT !.docs[d].name = nm]

clientRenameFolder(r, g, nm) == [r EXCEPT !.fold[g].name = nm]

\* What ListFolders and ListDocuments return when the tree is built: every
\* folder with its children in identifier order and its document count.
FreshTree(r) ==
    LET N == {Root} \cup DOMAIN r.fold
    IN  [built |-> TRUE,
         kids  |-> [n \in N |-> SortedSeq(FoldersIn(r, n))],
         cnt   |-> [n \in N |-> Cardinality(DocsIn(r, n))],
         name  |-> [n \in N |-> IF n = Root THEN <<>> ELSE r.fold[n].name]]

----------------------------------------------------------------------------
(* Results of a call *)

Call(c, ok, target, docs, folders) ==
    [call |-> c, ok |-> ok, target |-> target, docs |-> docs, folders |-> folders]

NoObj == [kind |-> "nil", id |-> NotFound, remote |-> <<>>]

Res(t, r, err, obj, calls) ==
    [tree |-> t, remote |-> r, err |-> err, obj |-> obj, calls |-> calls,
     entries |-> <<>>]

newDocument(parentDir, id, nm) ==
    [kind |-> "doc", id |-> id, remote |-> PathJoin(parentDir, remote2Local(nm))]

newFolder(parentDir, id, nm) ==
    [kind |-> "dir", id |-> id, remote |-> PathJoin(parentDir, remote2Local(nm))]

\* Fs.buildTree.  bf names the remote read that fails (0: none).
\* buildTree as it would be without the test f.tree != nil.
buildTreeAlways(t, r, bf) ==
    IF bf = 1 THEN
        [ok |-> FALSE, tree |-> t, calls |-> <<Call("ListFolders", FALSE, Root, {}, {})>>]
    ELSE IF bf = 2 THEN
        [ok |-> FALSE, tree |-> t,
         calls |-> <<Call("ListFolders", TRUE, Root, {}, {}),
                     Call("ListDocuments", FALSE, Root, {}, {})>>]
    ELSE IF bf = 3 THEN
        [ok |-> FALSE, tree |-> t,
         calls |-> <<Call("ListFolders", TRUE, Root, {}, {}),
                     Call("ListDocuments", TRUE, Root, {}, {}),
                     Call("GetProfile", FALSE, Root, {}, {})>>]
    ELSE
        [ok |-> TRUE, tree |-> FreshTree(r),
         calls |-> <<Call("ListFolders", TRUE, Root, {}, {}),
                     Call("ListDocuments", TRUE, Root, {}, {}),
                     Call("GetProfile", TRUE, Root, {}, {})>>]

\* buildTree as it would be with f.tree assigned before the last read.
buildTreeAssignsEarly(t, r, bf) ==
    IF t.built THEN [ok |-> TRUE, tree |-> t, calls |-> <<>>]
    ELSE IF bf = 1 THEN
        [ok |-> FALSE, tree |-> t, calls |-> <<Call("ListFolders", FALSE, Root, {}, {})>>]
    ELSE IF bf = 2 THEN
        [ok |-> FALSE, tree |-> t,
         calls |-> <<Call("ListFolders", TRUE, Root, {}, {}),
                     Call("ListDocuments", FALSE, Root, {}, {})>>]
    ELSE IF bf = 3 THEN
        [ok |-> FALSE, tree |-> FreshTree(r),
         calls |-> <<Call("ListFolders", TRUE, Root, {}, {}),
                     Call("ListDocuments", TRUE, Root, {}, {}),
                     Call("GetProfile", FALSE, Root, {}, {})>>]
    ELSE
        [ok |-> TRUE, tree |-> FreshTree(r),
         calls |-> <<Call("ListFolders", TRUE, Root, {}, {}),
                     Call("ListDocuments", TRUE, Root, {}, {}),
                     Call("GetProfile", TRUE, Root, {}, {})>>]

buildTree(t, r, bf) ==
    IF t.built THEN [ok |-> TRUE, tree |-> t, calls |-> <<>>]
    ELSE IF bf = 1 THEN
        [ok |-> FALSE, tree |-> t, calls |-> <<Call("ListFolders", FALSE, Root, {}, {})>>]
    ELSE IF bf = 2 THEN
        [ok |-> FALSE, tree |-> t,
         calls |-> <<Call("ListFolders", TRUE, Root, {}, {}),
                     Call("ListDocuments", FALSE, Root, {}, {})>>]
    ELSE IF bf = 3 THEN
        [ok |-> FALSE, tree |-> t,
         calls |-> <<Call("ListFolders", TRUE, Root, {}, {}),
                     Call("ListDocuments", TRUE, Root, {}, {}),
                     Call("GetProfile", FALSE, Root, {}, {})>>]
    ELSE
        [ok |-> TRUE, tree |-> FreshTree(r),
         calls |-> <<Call("ListFolders", TRUE, Root, {}, {}),
                     Call("ListDocuments", TRUE, Root, {}, {}),
                     Call("GetProfile", TRUE, Root, {}, {})>>]

\* parent.Folders = append(parent.Folders, folder)
AppendChild(t, parent, id, nm) ==
    LET N == DOMAIN t.kids \cup {id}
    IN  [built |-> TRUE,
         kids  |-> [n \in N |-> IF n = id THEN <<>>
                                ELSE IF n = parent THEN Append(t.kids[n], id)
                                ELSE t.kids[n]],
         cnt   |-> [n \in N |-> IF n = id THEN 0 ELSE t.cnt[n]],
         name  |-> [n \in N |-> IF n = id THEN nm ELSE t.name[n]]]

AddCount(t, n, k) == [t EXCEPT !.cnt[n] = @ + k]

\* The assignment of the kept children as it would be if the loop had
\* collected them back to front.
SetChildrenReversed(t, n, ks) ==
    Prune([t EXCEPT !.kids[n] = [i \in 1 .. Len(ks) |-> ks[Len(ks) + 1 - i]]])

SetChildren(t, n, ks) == Prune([t EXCEPT !.kids[n] = ks])

----------------------------------------------------------------------------
(* Mkdir, Rmdir, Purge.  cf is the ordinal of the verb's own remote call    *)
(* that fails (0: none).                                                   *)

\* Mkdir as it would be with the append made before CreateFolder returns.
MkdirResAppendFirst(t0, r, dir, bf, cf) ==
    LET b == buildTree(t0, r, bf)
    IN  IF ~b.ok THEN Res(b.tree, r, "buildTree", NoObj, b.calls)
        ELSE
        LET t        == b.tree
            baseName == PathBase(dir)
            parent   == GetFolder(t, PathDir(dir))
        IN  IF parent = NotFound THEN Res(t, r, "dirNotFound", NoObj, b.calls)
            ELSE IF cf = 1 \/ ~FolderExists(r, parent) THEN
                Res(AppendChild(t, parent, r.nextF, baseName), r, "remote", NoObj,
                    Append(b.calls, Call("CreateFolder", FALSE, parent, {}, {})))
            ELSE
                Res(AppendChild(t, parent, r.nextF, baseName),
                    clientCreateFolder(r, parent, baseName), "none", NoObj,
                    Append(b.calls, Call("CreateFolder", TRUE, parent, {}, {r.nextF})))

MkdirRes(t0, r, dir, bf, cf) ==
    LET b == buildTree(t0, r, bf)
    IN  IF ~b.ok THEN Res(b.tree, r, "buildTree", NoObj, b.calls)
        ELSE
        LET t        == b.tree
            baseName == PathBase(dir)
            parent   == GetFolder(t, PathDir(dir))
        IN  IF parent = NotFound THEN Res(t, r, "dirNotFound", NoObj, b.calls)
            ELSE IF cf = 1 \/ ~FolderExists(r, parent) THEN
                Res(t, r, "remote", NoObj,
                    Append(b.calls, Call("CreateFolder", FALSE, parent, {}, {})))
            ELSE
                Res(AppendChild(t, parent, r.nextF, baseName),
                    clientCreateFolder(r, parent, baseName), "none", NoObj,
                    Append(b.calls, Call("CreateFolder", TRUE, parent, {}, {r.nextF})))

\* The loop of Rmdir as it would be if a Delete that fails were made again
\* and the loop went on.
RECURSIVE RmdirLoopRetries(_, _, _, _, _, _, _, _, _)
RmdirLoopRetries(t, r, ks, baseName, cf, n, found, keep, calls) ==
    IF ks = <<>> THEN
        [err |-> "none", remote |-> r, keep |-> keep, found |-> found, calls |-> calls]
    ELSE
    LET g == Head(ks)
    IN  IF t.name[g] # baseName THEN
            RmdirLoopRetries(t, r, Tail(ks), baseName, cf, n, found, Append(keep, g), calls)
        ELSE IF documentsTotalCount(t, g) > 0 THEN
            [err |-> "notEmpty", remote |-> r, keep |-> keep, found |-> found,
             calls |-> calls]
        ELSE IF cf = n \/ g \notin DOMAIN r.fold THEN
            RmdirLoopRetries(t, clientDelete(r, {}, {g}), Tail(ks), baseName, cf, n + 1, TRUE,
                             keep,
                             calls \o <<Call("Delete", FALSE, NotFound, {}, {g}),
                                        Call("Delete", TRUE, NotFound, {}, {g})>>)
        ELSE
            RmdirLoopRetries(t, clientDelete(r, {}, {g}), Tail(ks), baseName, cf, n + 1, TRUE,
                             keep, Append(calls, Call("Delete", TRUE, NotFound, {}, {g})))

\* The loop of Rmdir over parent.Folders: ks is what is left of the list, n
\* the ordinal of the next Delete, keep the folders kept so far.
RECURSIVE RmdirLoop(_, _, _, _, _, _, _, _, _)
RmdirLoop(t, r, ks, baseName, cf, n, found, keep, calls) ==
    IF ks = <<>> THEN
        [err |-> "none", remote |-> r, keep |-> keep, found |-> found, calls |-> calls]
    ELSE
    LET g == Head(ks)
    IN  IF t.name[g] # baseName THEN
            RmdirLoop(t, r, Tail(ks), baseName, cf, n, found, Append(keep, g), calls)
        ELSE IF documentsTotalCount(t, g) > 0 THEN
            [err |-> "notEmpty", remote |-> r, keep |-> keep, found |-> found,
             calls |-> calls]
        ELSE IF cf = n \/ g \notin DOMAIN r.fold THEN
            [err |-> "remote", remote |-> r, keep |-> keep, found |-> found,
             calls |-> Append(calls, Call("Delete", FALSE, NotFound, {}, {g}))]
        ELSE
            RmdirLoop(t, clientDelete(r, {}, {g}), Tail(ks), baseName, cf, n + 1, TRUE, keep,
                      Append(calls, Call("Delete", TRUE, NotFound, {}, {g})))

RmdirRes(t0, r, dir, bf, cf) ==
    LET b == buildTree(t0, r, bf)
    IN  IF ~b.ok THEN Res(b.tree, r, "buildTree", NoObj, b.calls)
        ELSE
        LET t      == b.tree
            parent == GetFolder(t, PathDir(dir))
        IN  IF parent = NotFound THEN Res(t, r, "dirNotFound", NoObj, b.calls)
            ELSE
            LET l == RmdirLoop(t, r, t.kids[parent], PathBase(dir), cf, 1, FALSE,
                               <<>>, b.calls)
            IN  IF l.err # "none" THEN Res(t, l.remote, l.err, NoObj, l.calls)
                ELSE Res(SetChildren(t, parent, l.keep), l.remote,
                         IF l.found THEN "none" ELSE "notFound", NoObj, l.calls)

RECURSIVE PurgeLoop(_, _, _, _, _, _, _, _, _)
PurgeLoop(t, r, ks, baseName, cf, n, found, keep, calls) ==
    IF ks = <<>> THEN
        [err |-> "none", remote |-> r, keep |-> keep, found |-> found, calls |-> calls]
    ELSE
    LET g == Head(ks)
    IN  IF t.name[g] # baseName THEN
            PurgeLoop(t, r, Tail(ks), baseName, cf, n, found, Append(keep, g), calls)
        ELSE IF cf = n \/ g \notin DOMAIN r.fold THEN
            [err |-> "remote", remote |-> r, keep |-> keep, found |-> found,
             calls |-> Append(calls, Call("Delete", FALSE, NotFound, {}, {g}))]
        ELSE
            PurgeLoop(t, clientDelete(r, {}, {g}), Tail(ks), baseName, cf, n + 1, TRUE, keep,
                      Append(calls, Call("Delete", TRUE, NotFound, {}, {g})))

PurgeRes(t0, r, dir, bf, cf) ==
    LET b == buildTree(t0, r, bf)
    IN  IF ~b.ok THEN Res(b.tree, r, "buildTree", NoObj, b.calls)
        ELSE
        LET t      == b.tree
            parent == GetFolder(t, PathDir(dir))
        IN  IF parent = NotFound THEN Res(t, r, "dirNotFound", NoObj, b.calls)
            ELSE
            LET l == PurgeLoop(t, r, t.kids[parent], PathBase(dir), cf, 1, FALSE,
                               <<>>, b.calls)
            IN  IF l.err # "none" THEN Res(t, l.remote, l.err, NoObj, l.calls)
                ELSE Res(SetChildren(t, parent, l.keep), l.remote,
                         IF l.found THEN "none" ELSE "notFound", NoObj, l.calls)

----------------------------------------------------------------------------
(* Put and Document.Remove *)

\* Fs.PutStream (Fs.Put calls it).  mand: an option of the call is mandatory;
\* co: what CreateDocument returns ("ok", "err", or both a document and an
\* error, "docAndErr"); cf = 1: SearchDocuments fails, cf = 2: Delete fails.
PutStreamRes(t0, r, p, mand, co, bf, cf) ==
    IF mand THEN Res(t0, r, "mandatoryOption", NoObj, <<>>)
    ELSE
    LET b == buildTree(t0, r, bf)
    IN  IF ~b.ok THEN Res(b.tree, r, "buildTree", NoObj, b.calls)
        ELSE
        LET t          == b.tree
            parentPath == PathDir(p)
            baseName   == PathBase(p)
            parent     == GetFolder(t, parentPath)
        IN  IF parent = NotFound THEN Res(t, r, "dirNotFound", NoObj, b.calls)
            ELSE IF cf = 1 \/ ~FolderExists(r, parent) THEN
                Res(t, r, "remote", NoObj,
                    Append(b.calls, Call("SearchDocuments", FALSE, parent, {}, {})))
            ELSE
            LET documentIDs == {d \in DocsIn(r, parent) : r.docs[d].name = baseName}
                c1 == Append(b.calls, Call("SearchDocuments", TRUE, parent, {}, {}))
            IN  IF Cardinality(documentIDs) > 1 THEN Res(t, r, "dupDocs", NoObj, c1)
                ELSE IF co = "err" THEN
                    Res(t, r, "remote", NoObj,
                        Append(c1, Call("CreateDocument", FALSE, parent, {}, {})))
                ELSE
                LET id  == r.nextD
                    r2  == clientCreateDocument(r, parent, baseName)
                    t2  == AddCount(t, parent, 1)
                    obj == newDocument(parentPath, id, baseName)
                IN  IF co = "docAndErr" THEN
                        Res(t2, r2, "remote", NoObj,
                            Append(c1, Call("CreateDocument", FALSE, parent, {id}, {})))
                    ELSE
                    LET c2 == Append(c1, Call("CreateDocument", TRUE, parent, {id}, {}))
                    IN  IF cf = 2 THEN
                            Res(t2, r2, "remote", obj,
                                Append(c2, Call("Delete", FALSE, NotFound, documentIDs, {})))
                        ELSE
                            Res(AddCount(t2, parent, 0 - Cardinality(documentIDs)),
                                clientDelete(r2, documentIDs, {}), "errUnsupported", obj,
                                Append(c2, Call("Delete", TRUE, NotFound, documentIDs, {})))

\* Document.Remove as it would be without parent.DocumentCount--.
RemoveResNoCount(t, r, d, cf) ==
    IF cf = 1 \/ d.id \notin DOMAIN r.docs THEN
        Res(t, r, "remote", NoObj, <<Call("Trash", FALSE, NotFound, {d.id}, {})>>)
    ELSE
    LET r2 == clientTrash(r, {d.id})
        c1 == <<Call("Trash", TRUE, NotFound, {d.id}, {})>>
    IN  IF ~t.built THEN Res(t, r2, "panic", NoObj, c1)
        ELSE Res(t, r2, "none", NoObj, c1)

\* Document.Remove of the document handle d.  It takes no lock and builds
\* no tree: with f.tree == nil, GetFolder dereferences nil and panics.
RemoveRes(t, r, d, cf) ==
    IF cf = 1 \/ d.id \notin DOMAIN r.docs THEN
        Res(t, r, "remote", NoObj, <<Call("Trash", FALSE, NotFound, {d.id}, {})>>)
    ELSE
    LET r2 == clientTrash(r, {d.id})
        c1 == <<Call("Trash", TRUE, NotFound, {d.id}, {})>>
    IN  IF ~t.built THEN Res(t, r2, "panic", NoObj, c1)
        ELSE
        LET parent == GetFolder(t, PathDir(d.remote))
        IN  IF parent = NotFound THEN Res(t, r2, "none", NoObj, c1)
            ELSE Res(AddCount(t, parent, -1), r2, "none", NoObj, c1)

----------------------------------------------------------------------------
(* Move, Copy, DirMove *)

\* Fs.Move as it would be without the test of src against fs.Directory:
\* the remote Move is asked for whatever the source is, and refused.
MoveResNoDirectoryTest(t0, r, src, dst, bf, cf) ==
    LET b == buildTree(t0, r, bf)
    IN  IF ~b.ok THEN Res(b.tree, r, "buildTree", NoObj, b.calls)
        ELSE IF GetFolder(b.tree, PathDir(dst)) = NotFound
        THEN Res(b.tree, r, "cantMove", NoObj, b.calls)
        ELSE Res(b.tree, r, "remote", NoObj,
                 Append(b.calls, Call("Move", FALSE, GetFolder(b.tree, PathDir(dst)),
                                      {src.id}, {})))

\* Fs.Move of the handle src to the path dst.  cf = 1: the remote Move
\* fails, cf = 2: RenameDocument fails.
MoveRes(t0, r, src, dst, bf, cf) ==
    LET b == buildTree(t0, r, bf)
    IN  IF ~b.ok THEN Res(b.tree, r, "buildTree", NoObj, b.calls)
        ELSE
        LET t           == b.tree
            srcRemote   == src.remote
            srcBaseName == PathBase(srcRemote)
            srcParent   == PathDir(srcRemote)
            dstBaseName == PathBase(dst)
            dstParent   == PathDir(dst)
            dstParentFolder == GetFolder(t, dstParent)
            documentID  == src.id
        IN  IF dstParentFolder = NotFound THEN Res(t, r, "cantMove", NoObj, b.calls)
            ELSE IF src.kind # "doc" THEN Res(t, r, "unsupported", NoObj, b.calls)
            ELSE
            LET needMove == PathDir(srcRemote) # dstParent
                moveOK   == cf # 1 /\ clientCanMove(r, dstParentFolder, {documentID}, {})
                mc       == Call("Move", moveOK, dstParentFolder, {documentID}, {})
                srcParentFolder == GetFolder(t, srcParent)
                t1 == IF srcParentFolder = NotFound THEN t
                      ELSE AddCount(t, srcParentFolder, -1)
                t2 == IF GetFolder(t1, dstParent) = NotFound THEN t1
                      ELSE AddCount(t1, GetFolder(t1, dstParent), 1)
                tm == IF needMove THEN t2 ELSE t
                rm == IF needMove THEN clientMove(r, dstParentFolder, {documentID}, {})
                      ELSE r
                cm == IF needMove THEN Append(b.calls, mc) ELSE b.calls
            IN  IF needMove /\ ~moveOK THEN Res(t, r, "remote", NoObj, cm)
                ELSE IF srcBaseName # dstBaseName THEN
                    IF cf = 2 \/ documentID \notin DOMAIN rm.docs THEN
                        Res(tm, rm, "remote", NoObj,
                            Append(cm, Call("RenameDocument", FALSE, NotFound,
                                            {documentID}, {})))
                    ELSE
                        Res(tm, clientRenameDocument(rm, documentID, dstBaseName), "none",
                            newDocument(dstParent, documentID, dstBaseName),
                            Append(cm, Call("RenameDocument", TRUE, NotFound,
                                            {documentID}, {})))
                ELSE Res(tm, rm, "none", NoObj, cm)

\* Fs.Copy of the handle src to the path dst.  cf = 1: CopyDocuments fails,
\* cf = 2: the remote Move fails, cf = 3: RenameDocument fails.
CopyRes(t0, r, src, dst, bf, cf) ==
    LET b == buildTree(t0, r, bf)
    IN  IF ~b.ok THEN Res(b.tree, r, "buildTree", NoObj, b.calls)
        ELSE
        LET t              == b.tree
            srcRemote      == src.remote
            srcBaseName    == PathBase(srcRemote)
            srcParent      == PathDir(srcRemote)
            remoteBaseName == PathBase(dst)
            remoteParent   == PathDir(dst)
            remoteParentFolder == GetFolder(t, remoteParent)
            srcID          == src.id
        IN  IF remoteParentFolder = NotFound THEN Res(t, r, "cantMove", NoObj, b.calls)
            ELSE IF src.kind # "doc" THEN Res(t, r, "unsupported", NoObj, b.calls)
            ELSE IF cf = 1 \/ srcID \notin DOMAIN r.docs THEN
                Res(t, r, "remote", NoObj,
                    Append(b.calls, Call("CopyDocuments", FALSE, NotFound, {srcID}, {})))
            ELSE
            LET documentID == r.nextD
                r1 == clientCopyDocuments(r, srcID)
                c1 == Append(b.calls, Call("CopyDocuments", TRUE, NotFound, {srcID}, {}))
                needMove == PathDir(srcRemote) # remoteParent
                moveOK   == cf # 2 /\ clientCanMove(r1, remoteParentFolder, {documentID}, {})
                mc       == Call("Move", moveOK, remoteParentFolder, {documentID}, {})
                srcParentFolder == GetFolder(t, srcParent)
                tf == IF srcParentFolder = NotFound THEN t
                      ELSE AddCount(t, srcParentFolder, 1)
                rm == IF needMove THEN clientMove(r1, remoteParentFolder, {documentID}, {})
                      ELSE r1
                cm == IF needMove THEN Append(c1, mc) ELSE c1
                tm == AddCount(t, remoteParentFolder, 1)
                \* `srcParentFolder, err := f.GetFolder(...)` declares a new err
                \* in the block: the error returned after a failed Move wraps
                \* the error of GetFolder, nil when the parent is found.
                moveErr == IF srcParentFolder = NotFound THEN "dirNotFound"
                           ELSE "wrapsNil"
            IN  IF needMove /\ ~moveOK THEN Res(tf, r1, moveErr, NoObj, cm)
                ELSE IF srcBaseName # remoteBaseName THEN
                    IF cf = 3 THEN
                        Res(tm, rm, "remote", NoObj,
                            Append(cm, Call("RenameDocument", FALSE, NotFound,
                                            {documentID}, {})))
                    ELSE
                        Res(tm, clientRenameDocument(rm, documentID, remoteBaseName),
                            "none", newDocument(remoteParent, documentID, remoteBaseName),
                            Append(cm, Call("RenameDocument", TRUE, NotFound,
                                            {documentID}, {})))
                ELSE Res(tm, rm, "none", NoObj, cm)

\* srcParentFolder.Folders without the folder folderID.
WithoutFolder(t, parent, folderID) ==
    IF parent = NotFound THEN t
    ELSE [t EXCEPT !.kids[parent] = SelectSeq(@, LAMBDA g : g # folderID)]

\* Fs.DirMove.  src is the value passed as the source Fs: of kind "fs" (an
\* *Fs, which is no fs.Directory) or of kind "dir" (a value that is also an
\* fs.Directory, with an ID).  cf = 1: the remote Move fails, cf = 2:
\* RenameFolder fails.
DirMoveRes(t0, r, src, srcRemote, dstRemote, bf, cf) ==
    LET b == buildTree(t0, r, bf)
    IN  IF ~b.ok THEN Res(b.tree, r, "buildTree", NoObj, b.calls)
        ELSE
        LET t           == b.tree
            srcBaseName == PathBase(srcRemote)
            srcParent   == PathDir(srcRemote)
            dstBaseName == PathBase(dstRemote)
            dstParent   == PathDir(dstRemote)
            dstParentFolder == GetFolder(t, dstParent)
            folderID    == src.id
        IN  IF dstParentFolder = NotFound THEN Res(t, r, "cantMove", NoObj, b.calls)
            ELSE IF src.kind # "dir" THEN Res(t, r, "unsupported", NoObj, b.calls)
            ELSE
            LET needMove == PathDir(srcRemote) # dstParent
                moveOK   == cf # 1 /\ clientCanMove(r, dstParentFolder, {}, {folderID})
                mc       == Call("Move", moveOK, dstParentFolder, {}, {folderID})
                sp == GetFolder(t, srcParent)
                t1 == WithoutFolder(t, sp, folderID)
                dp == GetFolder(t1, dstParent)
                t2 == WithoutFolder(t1, dp, folderID)
                \* make([]*digiposte.Folder, 0, len(...)-1) panics on an empty list
                panic1 == sp # NotFound /\ Len(t.kids[sp]) = 0
                panic2 == dp # NotFound /\ Len(t1.kids[dp]) = 0
                tm == IF needMove THEN Prune(t2) ELSE t
                rm == IF needMove THEN clientMove(r, dstParentFolder, {}, {folderID})
                      ELSE r
                cm == IF needMove THEN Append(b.calls, mc) ELSE b.calls
            IN  IF needMove /\ ~moveOK THEN Res(t, r, "remote", NoObj, cm)
                ELSE IF needMove /\ panic1 THEN Res(t, rm, "panic", NoObj, cm)
                ELSE IF needMove /\ panic2 THEN Res(Prune(t1), rm, "panic", NoObj, cm)
                ELSE IF srcBaseName # dstBaseName THEN
                    IF cf = 2 \/ folderID \notin DOMAIN rm.fold THEN
                        Res(tm, rm, "remote", NoObj,
                            Append(cm, Call("RenameFolder", FALSE, NotFound, {},
                                            {folderID})))
                    ELSE
                        Res(tm, clientRenameFolder(rm, folderID, dstBaseName), "none",
                            NoObj,
                            Append(cm, Call("RenameFolder", TRUE, NotFound, {},
                                            {folderID})))
                ELSE Res(tm, rm, "none", NoObj, cm)

----------------------------------------------------------------------------
(* MergeDirs *)

\* The loop of MergeDirs over dirs[1:]: n is the ordinal of the next remote
\* call of the verb.
RECURSIVE MergeLoop(_, _, _, _, _, _, _, _, _)
MergeLoop(t, r, ds, cf, n, documentIDs, folderIDs, folderIDsToDelete, calls) ==
    IF ds = <<>> THEN
        [err |-> "none", n |-> n, documentIDs |-> documentIDs, folderIDs |-> folderIDs,
         folderIDsToDelete |-> folderIDsToDelete, calls |-> calls]
    ELSE
    LET folder == GetFolder(t, Head(ds).remote)
    IN  IF folder = NotFound THEN
            [err |-> "dirNotFound", n |-> n, documentIDs |-> documentIDs,
             folderIDs |-> folderIDs, folderIDsToDelete |-> folderIDsToDelete,
             calls |-> calls]
        ELSE IF cf = n \/ ~FolderExists(r, folder) THEN
            [err |-> "remote", n |-> n, documentIDs |-> documentIDs,
             folderIDs |-> folderIDs, folderIDsToDelete |-> folderIDsToDelete,
             calls |-> Append(calls, Call("SearchDocuments", FALSE, folder, {}, {}))]
        ELSE
            MergeLoop(t, r, Tail(ds), cf, n + 1,
                      documentIDs \cup DocsIn(r, folder),
                      folderIDs \cup SeqRange(t.kids[folder]),
                      folderIDsToDelete \cup {folder},
                      Append(calls, Call("SearchDocuments", TRUE, folder, {}, {})))

\* Fs.MergeDirs of the folder handles dirs.  The fallible remote calls are
\* numbered in the order they are made: one SearchDocuments for each of
\* dirs[1:], then Move, then Delete.
MergeDirsRes(t0, r, dirs, bf, cf) ==
    LET b == buildTree(t0, r, bf)
    IN  IF ~b.ok THEN Res(b.tree, r, "buildTree", NoObj, b.calls)
        ELSE
        LET t == b.tree
        IN  IF Len(dirs) < 2 THEN Res(t, r, "none", NoObj, b.calls)
            ELSE
            LET dest == Head(dirs)
                l    == MergeLoop(t, r, Tail(dirs), cf, 1, {}, {}, {}, b.calls)
            IN  IF l.err # "none" THEN Res(t, r, l.err, NoObj, l.calls)
                ELSE IF cf = l.n \/ ~clientCanMove(r, dest.id, l.documentIDs, l.folderIDs)
                THEN Res(t, r, "remote", NoObj,
                         Append(l.calls, Call("Move", FALSE, dest.id, l.documentIDs,
                                              l.folderIDs)))
                ELSE
                LET r1 == clientMove(r, dest.id, l.documentIDs, l.folderIDs)
                    c1 == Append(l.calls, Call("Move", TRUE, dest.id, l.documentIDs,
                                               l.folderIDs))
                IN  IF cf = l.n + 1 \/ ~(l.folderIDsToDelete \subseteq DOMAIN r1.fold)
                    THEN Res(t, r1, "remote", NoObj,
                             Append(c1, Call("Delete", FALSE, NotFound, {},
                                             l.folderIDsToDelete)))
                    ELSE Res(t, clientDelete(r1, {}, l.folderIDsToDelete), "none", NoObj,
                             Append(c1, Call("Delete", TRUE, NotFound, {},
                                             l.folderIDsToDelete)))

----------------------------------------------------------------------------
(* The read-only verbs and DirCacheFlush *)

\* Fs.List.  cf = 1: the listing of the documents fails.
ListRes(t0, r, dir, bf, cf) ==
    LET b == buildTree(t0, r, bf)
    IN  IF ~b.ok THEN Res(b.tree, r, "buildTree", NoObj, b.calls)
        ELSE
        LET t      == b.tree
            folder == GetFolder(t, dir)
            what   == IF dir = <<>> THEN "ListDocuments" ELSE "SearchDocuments"
        IN  IF folder = NotFound THEN Res(t, r, "dirNotFound", NoObj, b.calls)
            ELSE IF cf = 1 \/ ~FolderExists(r, folder) THEN
                Res(t, r, "remote", NoObj,
                    Append(b.calls, Call(what, FALSE, folder, {}, {})))
            ELSE
            LET fs == [i \in DOMAIN t.kids[folder] |->
                          newFolder(dir, t.kids[folder][i], t.name[t.kids[folder][i]])]
                ds == SortedSeq(DocsIn(r, folder))
            IN  [Res(t, r, "none", NoObj, Append(b.calls, Call(what, TRUE, folder, {}, {})))
                 EXCEPT !.entries =
                     fs \o [i \in DOMAIN ds |-> newDocument(dir, ds[i], r.docs[ds[i]].name)]]

\* Fs.NewObject.  cf = 1: SearchDocuments fails.
NewObjectRes(t0, r, p, bf, cf) ==
    LET b == buildTree(t0, r, bf)
    IN  IF ~b.ok THEN Res(b.tree, r, "buildTree", NoObj, b.calls)
        ELSE
        LET t          == b.tree
            parentPath == PathDir(p)
            name       == PathBase(p)
            folder     == GetFolder(t, parentPath)
        IN  IF folder = NotFound THEN Res(t, r, "objectNotFound", NoObj, b.calls)
            ELSE IF cf = 1 \/ ~FolderExists(r, folder) THEN
                Res(t, r, "remote", NoObj,
                    Append(b.calls, Call("SearchDocuments", FALSE, folder, {}, {})))
            ELSE
            LET c1 == Append(b.calls, Call("SearchDocuments", TRUE, folder, {}, {}))
                M  == {d \in DocsIn(r, folder) : r.docs[d].name = name}
            IN  IF M # {} THEN
                    Res(t, r, "none",
                        newDocument(parentPath, CHOOSE d \in M : \A e \in M : d <= e, name),
                        c1)
                ELSE IF \E g \in SeqRange(t.kids[folder]) : t.name[g] = name THEN
                    Res(t, r, "isDir", NoObj, c1)
                ELSE Res(t, r, "objectNotFound", NoObj, c1)

\* Fs.About and Fs.PublicLink: the tree build, then remote reads and share
\* calls that touch neither the cache nor the folders and documents.
\* cf = 1: one of those calls fails.
AboutRes(t0, r, bf, cf) ==
    LET b == buildTree(t0, r, bf)
    IN  IF ~b.ok THEN Res(b.tree, r, "buildTree", NoObj, b.calls)
        ELSE IF cf = 1 THEN
            Res(b.tree, r, "remote", NoObj,
                Append(b.calls, Call("GetProfile", FALSE, Root, {}, {})))
        ELSE Res(b.tree, r, "none", NoObj,
                 Append(b.calls, Call("GetProfile", TRUE, Root, {}, {})))

PublicLinkRes(t0, r, bf, cf) ==
    LET b == buildTree(t0, r, bf)
    IN  IF ~b.ok THEN Res(b.tree, r, "buildTree", NoObj, b.calls)
        ELSE IF cf = 1 THEN
            Res(b.tree, r, "remote", NoObj,
                Append(b.calls, Call("Share", FALSE, Root, {}, {})))
        ELSE Res(b.tree, r, "none", NoObj,
                 Append(b.calls, Call("Share", TRUE, Root, {}, {})))

\* Fs.DirCacheFlush: f.tree = nil.
DirCacheFlushRes(t, r) == Res(NoTree, r, "none", NoObj, <<>>)

----------------------------------------------------------------------------
(* The calls a client of the Fs can make.  F: remote calls may fail;       *)
(* D: the paths the caller passes; m: how the caller holds f.lock while    *)
(* the body of the verb runs; t: the cache as the body reads it, which is  *)
(* f.tree unless another goroutine has written it since the body started.  *)

\* The remote reads of the tree build that may fail: none when the tree is
\* built already.
BuildFails(F, t) == IF t.built \/ ~F THEN {0} ELSE 0 .. 3

Fails(F, n) == IF F THEN 0 .. n ELSE {0}

\* A failed tree build ends every verb the same way whatever its arguments:
\* it is taken with one argument only.
ArgsFor(bf, S, x) == IF bf = 0 THEN S ELSE {x}

\* The handles a caller can hold: the entries List returns on the cache as
\* it is or, once the tree is unset, those it returned before the flush.
Listed(t) == IF t.built THEN t ELSE FreshTree(remote)

ListedDirs(t) == {p \in DirPaths : GetFolder(Listed(t), p) # NotFound}

DocHandles(t) ==
    UNION {{newDocument(dir, d, remote.docs[d].name) :
               d \in DocsIn(remote, GetFolder(Listed(t), dir))} : dir \in ListedDirs(t)}

FolderHandles(t) ==
    UNION {{newFolder(dir, g, Listed(t).name[g]) :
               g \in SeqRange(Listed(t).kids[GetFolder(Listed(t), dir)])} : dir \in ListedDirs(t)}

\* The value DirMove gets as its source Fs.
FsValue == [kind |-> "fs", id |-> NotFound, remote |-> <<>>]

NoPut == [parent |-> NotFound, before |-> 0, replaced |-> 0]

\* The cache a verb works on once its buildTree has returned.
Built(t, bf) == buildTree(t, remote, bf).tree

\* What Put did to the count of the folder it put into.
PutInfo(t, res, p, bf) ==
    IF res.obj = NoObj THEN NoPut
    ELSE LET parent == GetFolder(Built(t, bf), PathDir(p))
             del == res.calls[Len(res.calls)]
         IN  [parent |-> parent, before |-> Built(t, bf).cnt[parent],
              replaced |-> IF del.ok THEN Cardinality(del.docs) ELSE 0]

\* The call returns: the cache and the remote store are as the verb left
\* them, and last records the call: pre is the cache when the call was
\* made, base the cache after the verb's buildTree, prevErr the error of
\* the call before.
Return(res, op, path, src, dirs, put, base, m) ==
    /\ tree' = res.tree
    /\ remote' = res.remote
    /\ last' = [op |-> op, path |-> path, src |-> src, dirs |-> dirs,
                err |-> res.err, obj |-> res.obj, calls |-> res.calls,
                entries |-> res.entries, put |-> put, pre |-> tree, base |-> base,
                held |-> m, prevErr |-> last.err, items |-> 0]
    /\ alive' = (res.err # "panic")
    /\ nops' = nops + 1

DoPut(F, D, m, t) ==
    \E bf \in BuildFails(F, t), mand \in BOOLEAN, co \in {"ok", "err", "docAndErr"},
       cf \in Fails(F, 2) :
      \E p \in ArgsFor(IF mand THEN 1 ELSE bf, D, <<>>) :
        /\ (mand \/ bf # 0 \/ co # "ok") => cf = 0
        /\ (mand \/ bf # 0 \/ ~F) => co = "ok"
        /\ mand => bf = 0
        /\ remote.nextD <= MaxDocs
        /\ LET res == PutStreamRes(t, remote, p, mand, co, bf, cf)
           IN  Return(res, "Put", p, NoObj, <<>>, PutInfo(t, res, p, bf),
                      IF mand THEN t ELSE Built(t, bf), IF mand THEN "none" ELSE m)

DoRemove(F, D, m, t) ==
    \E d \in DocHandles(t), cf \in Fails(F, 1) :
        Return(RemoveRes(t, remote, d, cf), "Remove", <<>>, d, <<>>,
               IF last.op = "Put" /\ last.obj = d THEN last.put ELSE NoPut, t, m)

DoMkdir(F, D, m, t) ==
    \E bf \in BuildFails(F, t), cf \in Fails(F, 1) :
      \E dir \in ArgsFor(bf, D, <<>>) :
        /\ bf # 0 => cf = 0
        /\ remote.nextF <= MaxFolders
        /\ Return(MkdirRes(t, remote, dir, bf, cf), "Mkdir", dir, NoObj, <<>>, NoPut,
                  Built(t, bf), m)

DoRmdir(F, D, m, t) ==
    \E bf \in BuildFails(F, t), cf \in Fails(F, 2) :
      \E dir \in ArgsFor(bf, D, <<>>) :
        /\ bf # 0 => cf = 0
        /\ Return(RmdirRes(t, remote, dir, bf, cf), "Rmdir", dir, NoObj, <<>>, NoPut,
                  Built(t, bf), m)

DoPurge(F, D, m, t) ==
    \E bf \in BuildFails(F, t), cf \in Fails(F, 2) :
      \E dir \in ArgsFor(bf, D, <<>>) :
        /\ bf # 0 => cf = 0
        /\ Return(PurgeRes(t, remote, dir, bf, cf), "Purge", dir, NoObj, <<>>, NoPut,
                  Built(t, bf), m)

DoMove(F, D, m, t) ==
    \E bf \in BuildFails(F, t), cf \in Fails(F, 2), src \in DocHandles(t) \cup FolderHandles(t) :
      \E dst \in ArgsFor(bf, D, <<>>) :
        /\ (bf # 0 \/ src.kind # "doc") => cf = 0
        /\ Return(MoveRes(t, remote, src, dst, bf, cf), "Move", dst, src, <<>>, NoPut,
                  Built(t, bf), m)

DoCopy(F, D, m, t) ==
    \E bf \in BuildFails(F, t), cf \in Fails(F, 3), src \in DocHandles(t) \cup FolderHandles(t) :
      \E dst \in ArgsFor(bf, D, <<>>) :
        /\ (bf # 0 \/ src.kind # "doc") => cf = 0
        /\ remote.nextD <= MaxDocs
        /\ Return(CopyRes(t, remote, src, dst, bf, cf), "Copy", dst, src, <<>>, NoPut,
                  Built(t, bf), m)

DoDirMove(F, D, m, t) ==
    \E bf \in BuildFails(F, t), cf \in Fails(F, 2) :
      \E src \in {FsValue} \cup FolderHandles(t), dst \in ArgsFor(bf, D, <<>>) :
        \E srcRemote \in IF src.kind = "dir" THEN {src.remote} ELSE ArgsFor(bf, D, <<>>) :
          /\ (bf # 0 \/ src.kind # "dir") => cf = 0
          /\ Return(DirMoveRes(t, remote, src, srcRemote, dst, bf, cf), "DirMove",
                    dst, [src EXCEPT !.remote = srcRemote], <<>>, NoPut, Built(t, bf), m)

DoMergeDirs(F, D, m, t) ==
    \E bf \in BuildFails(F, t), cf \in Fails(F, 3) :
      \E dirs \in {<<d>> : d \in FolderHandles(t)}
                  \cup {<<d, e>> : d \in FolderHandles(t), e \in FolderHandles(t)} :
        /\ (bf # 0 \/ Len(dirs) < 2) => cf = 0
        /\ Return(MergeDirsRes(t, remote, dirs, bf, cf), "MergeDirs", <<>>, NoObj,
                  dirs, NoPut, Built(t, bf), m)

DoList(F, D, m, t) ==
    \E bf \in BuildFails(F, t), cf \in Fails(F, 1) :
      \E dir \in ArgsFor(bf, D, <<>>) :
        /\ bf # 0 => cf = 0
        /\ Return(ListRes(t, remote, dir, bf, cf), "List", dir, NoObj, <<>>, NoPut,
                  Built(t, bf), m)

DoNewObject(F, D, m, t) ==
    \E bf \in BuildFails(F, t), cf \in Fails(F, 1) :
      \E p \in ArgsFor(bf, D, <<>>) :
        /\ bf # 0 => cf = 0
        /\ Return(NewObjectRes(t, remote, p, bf, cf), "NewObject", p, NoObj, <<>>,
                  NoPut, Built(t, bf), m)

DoAbout(F, D, m, t) ==
    \E bf \in BuildFails(F, t), cf \in Fails(F, 1) :
        /\ bf # 0 => cf = 0
        /\ Return(AboutRes(t, remote, bf, cf), "About", <<>>, NoObj, <<>>, NoPut,
                  Built(t, bf), m)

DoPublicLink(F, D, m, t) ==
    \E bf \in BuildFails(F, t), cf \in Fails(F, 1) :
        /\ bf # 0 => cf = 0
        /\ Return(PublicLinkRes(t, remote, bf, cf), "PublicLink", <<>>, NoObj, <<>>,
                  NoPut, Built(t, bf), m)

DoDirCacheFlush(F, D, m, t) ==
    Return(DirCacheFlushRes(t, remote), "DirCacheFlush", <<>>, NoObj, <<>>, NoPut,
           t, m)

----------------------------------------------------------------------------
(* f.lock *)

Mutating == {"Put", "Mkdir", "Rmdir", "Purge", "Move", "Copy", "DirMove", "MergeDirs"}
ReadOnly == {"List", "NewObject", "About", "PublicLink"}
Unlocked == {"Remove", "DirCacheFlush"}
Verbs    == Mutating \cup ReadOnly \cup Unlocked

\* How each verb takes f.lock: Lock ("W"), RLock ("R"), or not at all.
LockMode(v) ==
    CASE v \in {"Put", "Mkdir", "Rmdir", "Purge", "Move", "DirMove", "MergeDirs"} -> "W"
      [] v \in {"Copy", "List", "NewObject", "About", "PublicLink"} -> "R"
      [] OTHER -> "none"

----------------------------------------------------------------------------
(* Spec: one caller, one call after the other *)

\* Two remote stores an Fs can be opened on.  Layout1: folders a and a/b,
\* a document in the root and one in a.  Layout2: two empty folders
\* named b in the root; under a, two empty folders named b with a folder a
\* between them, which holds a document.
Layout1 ==
    [fold  |-> (1 :> [parent |-> Root, name |-> NameA]) @@
               (2 :> [parent |-> 1, name |-> NameB]),
     docs  |-> (1 :> [parent |-> Root, name |-> NameA]) @@
               (2 :> [parent |-> 1, name |-> NameA]),
     nextF |-> 3, nextD |-> 3]

Layout2 ==
    [fold  |-> (1 :> [parent |-> Root, name |-> NameA]) @@
               (2 :> [parent |-> Root, name |-> NameB]) @@
               (3 :> [parent |-> Root, name |-> NameB]) @@
               (4 :> [parent |-> 1, name |-> NameB]) @@
               (5 :> [parent |-> 1, name |-> NameA]) @@
               (6 :> [parent |-> 1, name |-> NameB]),
     docs  |-> (1 :> [parent |-> 5, name |-> NameA]),
     nextF |-> 7, nextD |-> 2]

NoCall == [op |-> "none", path |-> <<>>, src |-> NoObj, dirs |-> <<>>, err |-> "none",
           obj |-> NoObj, calls |-> <<>>, entries |-> <<>>, put |-> NoPut,
           pre |-> NoTree, base |-> NoTree, held |-> "none", prevErr |-> "none",
           items |-> 0]

Init ==
    /\ tree = NoTree
    /\ remote \in {Layout1, Layout2}
    /\ last = NoCall
    /\ alive = TRUE
    /\ nops = 0
    /\ pc = [p \in Procs |-> "idle"]
    /\ held = [p \in Procs |-> "none"]
    /\ verb = [p \in Procs |-> "none"]
    /\ seen = [p \in Procs |-> NoTree]
    /\ outside = {}

\* One caller: a verb takes the lock it asks for and runs.
CanCall == alive /\ nops < MaxOps

Put           == CanCall /\ DoPut(TRUE, DirPaths, LockMode("Put"), tree) /\ UNCHANGED <<lockVars, outside>>
Remove        == CanCall /\ DoRemove(TRUE, DirPaths, LockMode("Remove"), tree) /\ UNCHANGED <<lockVars, outside>>
Mkdir         == CanCall /\ DoMkdir(TRUE, DirPaths, LockMode("Mkdir"), tree) /\ UNCHANGED <<lockVars, outside>>
Rmdir         == CanCall /\ DoRmdir(TRUE, DirPaths, LockMode("Rmdir"), tree) /\ UNCHANGED <<lockVars, outside>>
Purge         == CanCall /\ DoPurge(TRUE, DirPaths, LockMode("Purge"), tree) /\ UNCHANGED <<lockVars, outside>>
Move          == CanCall /\ DoMove(TRUE, DirPaths, LockMode("Move"), tree) /\ UNCHANGED <<lockVars, outside>>
Copy          == CanCall /\ DoCopy(TRUE, DirPaths, LockMode("Copy"), tree) /\ UNCHANGED <<lockVars, outside>>
DirMove       == CanCall /\ DoDirMove(TRUE, DirPaths, LockMode("DirMove"), tree) /\ UNCHANGED <<lockVars, outside>>
MergeDirs     == CanCall /\ DoMergeDirs(TRUE, DirPaths, LockMode("MergeDirs"), tree) /\ UNCHANGED <<lockVars, outside>>
List          == CanCall /\ DoList(TRUE, DirPaths, LockMode("List"), tree) /\ UNCHANGED <<lockVars, outside>>
NewObject     == CanCall /\ DoNewObject(TRUE, DirPaths, LockMode("NewObject"), tree) /\ UNCHANGED <<lockVars, outside>>
About         == CanCall /\ DoAbout(TRUE, DirPaths, LockMode("About"), tree) /\ UNCHANGED <<lockVars, outside>>
PublicLink    == CanCall /\ DoPublicLink(TRUE, DirPaths, LockMode("PublicLink"), tree) /\ UNCHANGED <<lockVars, outside>>
DirCacheFlush == CanCall /\ DoDirCacheFlush(TRUE, DirPaths, LockMode("DirCacheFlush"), tree) /\ UNCHANGED <<lockVars, outside>>

Next ==
    \/ Put
    \/ Remove
    \/ Mkdir
    \/ Rmdir
    \/ Purge
    \/ Move
    \/ Copy
    \/ DirMove
    \/ MergeDirs
    \/ List
    \/ NewObject
    \/ About
    \/ PublicLink
    \/ DirCacheFlush

Spec == Init /\ [][Next]_vars

\* The calls of the claim about the counts: the eight verbs that add or
\* remove documents and folders, without DirMove and DirCacheFlush.
NextCounted ==
    \/ Put
    \/ Copy
    \/ Move
    \/ Remove
    \/ Mkdir
    \/ Rmdir
    \/ Purge
    \/ MergeDirs

SpecCounted == Init /\ [][NextCounted]_vars

\* Another client of the same account creates a folder in the root or in a
\* top-level folder once the Fs has built its tree: the remote store
\* changes and nothing of the Fs does.  One such change is followed.
OutsideMkdir ==
    /\ alive /\ tree.built /\ outside = {} /\ remote.nextF <= MaxFolders
    /\ \E parent \in {Root} \cup FoldersIn(remote, Root), nm \in Names :
          remote' = clientCreateFolder(remote, parent, nm)
    /\ outside' = {remote.nextF}
    /\ UNCHANGED <<tree, last, alive, nops, lockVars>>

NextDrift ==
    \/ Next
    \/ OutsideMkdir

SpecDrift == Init /\ [][NextDrift]_vars

----------------------------------------------------------------------------
(* SpecResolve: Fs.GetFolder called with path strings on a built tree *)

\* A store with folders named "a" (twice in the root), "_" and "/".
Layout4 ==
    [fold  |-> (1 :> [parent |-> Root, name |-> NameA]) @@
               (2 :> [parent |-> Root, name |-> <<"_">>]) @@
               (3 :> [parent |-> Root, name |-> <<"/">>]) @@
               (4 :> [parent |-> Root, name |-> NameA]) @@
               (5 :> [parent |-> 1, name |-> NameA]) @@
               (6 :> [parent |-> 4, name |-> <<"_">>]),
     docs  |-> <<>>,
     nextF |-> 7, nextD |-> 1]

PathChars == {"a", "b", "/", SlashReplacement}

PathStrings == UNION {[1 .. n -> PathChars] : n \in 0 .. MaxPathLen}

InitResolve ==
    /\ tree = NoTree
    /\ remote \in {Layout2, Layout4}
    /\ last = NoCall
    /\ alive = TRUE
    /\ nops = 0
    /\ pc = [p \in Procs |-> "idle"]
    /\ held = [p \in Procs |-> "none"]
    /\ verb = [p \in Procs |-> "none"]
    /\ seen = [p \in Procs |-> NoTree]
    /\ outside = {}

\* The tree build of the first verb called on the Fs.
EnsureBuilt ==
    /\ ~tree.built
    /\ tree' = buildTree(tree, remote, 0).tree
    /\ UNCHANGED <<remote, last, alive, nops, lockVars, outside>>

\* f.GetFolder(ctx, s): last.obj is the folder returned, last.dirs the
\* call of GetFolder before this one, if the call before was one.
Resolve ==
    /\ tree.built /\ nops < MaxOps
    /\ \E s \in PathStrings :
          last' = [NoCall EXCEPT
                      !.op = "GetFolder", !.path = s, !.pre = tree, !.base = tree,
                      !.obj = [kind |-> "dir", id |-> GetFolderOfString(tree, s), remote |-> s],
                      !.err = IF GetFolderOfString(tree, s) = NotFound
                              THEN "dirNotFound" ELSE "none",
                      !.dirs = IF last.op = "GetFolder" THEN <<last.obj>> ELSE <<>>,
                      !.prevErr = last.err]
    /\ nops' = nops + 1
    /\ UNCHANGED <<tree, remote, alive, lockVars, outside>>

NextResolve ==
    \/ EnsureBuilt
    \/ Resolve

SpecResolve == InitResolve /\ [][NextResolve]_vars

\* ---------------------------------------------------------------------
\* The name codec on its own: a name is encoded with remote2Local and the
\* result decoded with local2Remote.  last.path is the name, last.obj.remote
\* the string the last conversion returned.

InitCodec ==
    /\ tree = NoTree
    /\ remote = Layout1
    /\ last = NoCall
    /\ alive = TRUE
    /\ nops = 0
    /\ pc = [p \in Procs |-> "idle"]
    /\ held = [p \in Procs |-> "none"]
    /\ verb = [p \in Procs |-> "none"]
    /\ seen = [p \in Procs |-> NoTree]
    /\ outside = {}

Encode ==
    /\ last.op # "remote2Local"
    /\ \E x \in PathStrings :
          last' = [NoCall EXCEPT !.op = "remote2Local", !.path = x,
                                 !.obj = [kind |-> "name", id |-> NotFound,
                                          remote |-> remote2Local(x)]]
    /\ UNCHANGED <<tree, remote, alive, nops, lockVars, outside>>

Decode ==
    /\ last.op = "remote2Local"
    /\ last' = [last EXCEPT !.op = "local2Remote",
                            !.obj.remote = local2Remote(last.obj.remote)]
    /\ UNCHANGED <<tree, remote, alive, nops, lockVars, outside>>

NextCodec ==
    \/ Encode
    \/ Decode

SpecCodec == InitCodec /\ [][NextCodec]_vars

\* ---------------------------------------------------------------------
\* Folder.Items beside the verbs.  A Folder handle holds the pointer to the
\* node of the cache it was made from (newFolder), so Items reads the cache
\* as it is when called; the handles here are those of the current tree.
\* last.src is the handle, last.items what Items returns, last.pre the
\* cache at the call and last.base the cache the call before started from,
\* once its tree was built.

Items ==
    /\ CanCall /\ tree.built
    /\ \E f \in FolderHandles(tree) :
          last' = [NoCall EXCEPT !.op = "Items", !.src = f, !.pre = tree,
                                 !.base = last.base, !.prevErr = last.err,
                                 !.items = documentsTotalCount(tree, f.id)]
    /\ nops' = nops + 1
    /\ UNCHANGED <<tree, remote, alive, lockVars, outside>>

NextItems ==
    \/ Next
    \/ Items

SpecItems == Init /\ [][NextItems]_vars

\* ---------------------------------------------------------------------
\* List and the look-up of what it returned.  Layout5 has no two siblings of
\* one name and holds names with the slash and with its replacement: in
\* the root folder a, a folder named "_" and a document a; in a, a folder
\* named "/", a document named "/" and a document b.

Layout5 ==
    [fold  |-> (1 :> [parent |-> Root, name |-> NameA]) @@
               (2 :> [parent |-> Root, name |-> <<SlashReplacement>>]) @@
               (3 :> [parent |-> 1, name |-> <<"/">>]),
     docs  |-> (1 :> [parent |-> Root, name |-> NameA]) @@
               (2 :> [parent |-> 1, name |-> <<"/">>]) @@
               (3 :> [parent |-> 1, name |-> NameB]),
     nextF |-> 4, nextD |-> 4]

InitLookup ==
    /\ tree = NoTree
    /\ remote \in {Layout1, Layout5}
    /\ last = NoCall
    /\ alive = TRUE
    /\ nops = 0
    /\ pc = [p \in Procs |-> "idle"]
    /\ held = [p \in Procs |-> "none"]
    /\ verb = [p \in Procs |-> "none"]
    /\ seen = [p \in Procs |-> NoTree]
    /\ outside = {}

\* An entry of the List that has just returned is looked up by its
\* Remote(): a folder with f.GetFolder, a document with f.NewObject, no
\* remote call failing.  last.src is the entry, last.obj what was found.
Lookup ==
    /\ alive /\ tree.built
    /\ last.op = "List" /\ last.err = "none"
    /\ \E i \in DOMAIN last.entries :
          LET e == last.entries[i]
              g == GetFolder(tree, e.remote)
              o == NewObjectRes(tree, remote, e.remote, 0, 0)
          IN  last' = [NoCall EXCEPT
                          !.op = "Lookup", !.path = e.remote, !.src = e,
                          !.pre = tree, !.base = tree, !.prevErr = last.err,
                          !.obj = IF e.kind = "dir"
                                  THEN [kind |-> "dir", id |-> g, remote |-> e.remote]
                                  ELSE o.obj,
                          !.err = IF e.kind = "dir"
                                  THEN IF g = NotFound THEN "dirNotFound" ELSE "none"
                                  ELSE o.err,
                          !.calls = IF e.kind = "dir" THEN <<>> ELSE o.calls]
    /\ UNCHANGED <<tree, remote, alive, nops, lockVars, outside>>

NextLookup ==
    \/ Next
    \/ Lookup

SpecLookup == InitLookup /\ [][NextLookup]_vars

\* ---------------------------------------------------------------------
\* The verbs that change children lists, from a store with no two siblings
\* of one name.

NextFolders ==
    \/ Mkdir
    \/ Rmdir
    \/ Purge
    \/ DirMove
    \/ MergeDirs

SpecFolders == InitLookup /\ [][NextFolders]_vars

\* ---------------------------------------------------------------------
\* The verbs on a store where folder a holds two folders named b, the
\* first empty, the second with a document.

Layout6 ==
    [fold  |-> (1 :> [parent |-> Root, name |-> NameA]) @@
               (2 :> [parent |-> 1, name |-> NameB]) @@
               (3 :> [parent |-> 1, name |-> NameB]),
     docs  |-> (1 :> [parent |-> 3, name |-> NameA]),
     nextF |-> 4, nextD |-> 2]

InitSameNamed ==
    /\ tree = NoTree
    /\ remote \in {Layout2, Layout6}
    /\ last = NoCall
    /\ alive = TRUE
    /\ nops = 0
    /\ pc = [p \in Procs |-> "idle"]
    /\ held = [p \in Procs |-> "none"]
    /\ verb = [p \in Procs |-> "none"]
    /\ seen = [p \in Procs |-> NoTree]
    /\ outside = {}

SpecSameNamed == InitSameNamed /\ [][Next]_vars

\* ---------------------------------------------------------------------
\* Rmdir and Purge of paths whose segments may be the slash replacement, on
\* stores with folders named "/" and "_".  Layout7: folder a holds a
\* folder named "/" and a folder named "_".

Layout7 ==
    [fold  |-> (1 :> [parent |-> Root, name |-> NameA]) @@
               (2 :> [parent |-> 1, name |-> <<"/">>]) @@
               (3 :> [parent |-> 1, name |-> <<SlashReplacement>>]),
     docs  |-> (1 :> [parent |-> 1, name |-> NameA]),
     nextF |-> 4, nextD |-> 2]

CodedPaths ==
    UNION {[1 .. n -> {NameA, <<SlashReplacement>>}] : n \in 0 .. MaxDepth}

InitCoded ==
    /\ tree = NoTree
    /\ remote \in {Layout5, Layout7}
    /\ last = NoCall
    /\ alive = TRUE
    /\ nops = 0
    /\ pc = [p \in Procs |-> "idle"]
    /\ held = [p \in Procs |-> "none"]
    /\ verb = [p \in Procs |-> "none"]
    /\ seen = [p \in Procs |-> NoTree]
    /\ outside = {}

RmdirCoded ==
    /\ CanCall
    /\ DoRmdir(TRUE, CodedPaths, LockMode("Rmdir"), tree)
    /\ UNCHANGED <<lockVars, outside>>

PurgeCoded ==
    /\ CanCall
    /\ DoPurge(TRUE, CodedPaths, LockMode("Purge"), tree)
    /\ UNCHANGED <<lockVars, outside>>

NextCoded ==
    \/ RmdirCoded
    \/ PurgeCoded

SpecCoded == InitCoded /\ [][NextCoded]_vars

----------------------------------------------------------------------------
(* SpecLock: two goroutines call the Fs at the same time.  A call takes    *)
(* f.lock the way its verb does, runs its body, and releases the lock.     *)

\* A store with two documents in one folder.
Layout3 ==
    [fold  |-> (1 :> [parent |-> Root, name |-> NameA]) @@
               (2 :> [parent |-> 1, name |-> NameB]),
     docs  |-> (1 :> [parent |-> 1, name |-> NameA]) @@
               (2 :> [parent |-> 1, name |-> NameB]),
     nextF |-> 3, nextD |-> 3]

ConcPaths == {<<NameA>>, <<NameA, NameB>>}

InitLock ==
    /\ tree = NoTree
    /\ remote = Layout3
    /\ last = NoCall
    /\ alive = TRUE
    /\ nops = 0
    /\ pc = [p \in Procs |-> "idle"]
    /\ held = [p \in Procs |-> "none"]
    /\ verb = [p \in Procs |-> "none"]
    /\ seen = [p \in Procs |-> NoTree]
    /\ outside = {}

Started == nops + Cardinality({q \in Procs : pc[q] \in {"lock", "body"}})

\* A goroutine enters a verb.
CallVerb(p) ==
    /\ alive /\ pc[p] = "idle" /\ Started < MaxConcOps
    /\ \E v \in Verbs : verb' = [verb EXCEPT ![p] = v]
    /\ pc' = [pc EXCEPT ![p] = "lock"]
    /\ UNCHANGED <<seqVars, held, seen, outside>>

\* f.lock.Lock() / f.lock.RLock(), or neither: sync.RWMutex lets a writer in
\* when nobody holds the lock and a reader in when no writer holds it.
Acquire(p) ==
    /\ alive /\ pc[p] = "lock"
    /\ LockMode(verb[p]) = "W" => \A q \in Procs : held[q] = "none"
    /\ LockMode(verb[p]) = "R" => \A q \in Procs : held[q] # "W"
    /\ held' = [held EXCEPT ![p] = LockMode(verb[p])]
    /\ seen' = [seen EXCEPT ![p] = tree]
    /\ pc' = [pc EXCEPT ![p] = "body"]
    /\ UNCHANGED <<seqVars, verb, outside>>

\* The body of verb v runs.  When another goroutine has written the cache
\* since this body started, the two bodies race: this one works on the
\* cache as it is now or as it was when it started.
Running(p, v) ==
    /\ alive /\ pc[p] = "body" /\ verb[p] = v
    /\ UNCHANGED <<held, verb, seen, outside>>

\* The body ends: it reaches a return statement, or it panics and the
\* goroutine starts to unwind.  In both cases the deferred unlock is next.
Returns(p) ==
    pc' = [pc EXCEPT ![p] = IF alive' THEN "unlock" ELSE "panic"]

BodyPut(p)           == Running(p, "Put") /\ \E t \in {tree, seen[p]} : DoPut(FALSE, ConcPaths, held[p], t) /\ Returns(p)
BodyRemove(p)        == Running(p, "Remove") /\ \E t \in {tree, seen[p]} : DoRemove(FALSE, ConcPaths, held[p], t) /\ Returns(p)
BodyMkdir(p)         == Running(p, "Mkdir") /\ \E t \in {tree, seen[p]} : DoMkdir(FALSE, ConcPaths, held[p], t) /\ Returns(p)
BodyRmdir(p)         == Running(p, "Rmdir") /\ \E t \in {tree, seen[p]} : DoRmdir(FALSE, ConcPaths, held[p], t) /\ Returns(p)
BodyPurge(p)         == Running(p, "Purge") /\ \E t \in {tree, seen[p]} : DoPurge(FALSE, ConcPaths, held[p], t) /\ Returns(p)
BodyMove(p)          == Running(p, "Move") /\ \E t \in {tree, seen[p]} : DoMove(FALSE, ConcPaths, held[p], t) /\ Returns(p)
BodyCopy(p)          == Running(p, "Copy") /\ \E t \in {tree, seen[p]} : DoCopy(FALSE, ConcPaths, held[p], t) /\ Returns(p)
BodyDirMove(p)       == Running(p, "DirMove") /\ \E t \in {tree, seen[p]} : DoDirMove(FALSE, ConcPaths, held[p], t) /\ Returns(p)
BodyMergeDirs(p)     == Running(p, "MergeDirs") /\ \E t \in {tree, seen[p]} : DoMergeDirs(FALSE, ConcPaths, held[p], t) /\ Returns(p)
BodyList(p)          == Running(p, "List") /\ \E t \in {tree, seen[p]} : DoList(FALSE, ConcPaths, held[p], t) /\ Returns(p)
BodyNewObject(p)     == Running(p, "NewObject") /\ \E t \in {tree, seen[p]} : DoNewObject(FALSE, ConcPaths, held[p], t) /\ Returns(p)
BodyAbout(p)         == Running(p, "About") /\ \E t \in {tree, seen[p]} : DoAbout(FALSE, ConcPaths, held[p], t) /\ Returns(p)
BodyPublicLink(p)    == Running(p, "PublicLink") /\ \E t \in {tree, seen[p]} : DoPublicLink(FALSE, ConcPaths, held[p], t) /\ Returns(p)
BodyDirCacheFlush(p) == Running(p, "DirCacheFlush") /\ \E t \in {tree, seen[p]} : DoDirCacheFlush(FALSE, ConcPaths, held[p], t) /\ Returns(p)

\* A verb whose error returns leave without unlocking.
ReleaseOnSuccessOnly(p) ==
    /\ alive /\ pc[p] = "unlock"
    /\ held' = IF last.err = "none" THEN [held EXCEPT ![p] = "none"] ELSE held
    /\ pc' = [pc EXCEPT ![p] = "idle"]
    /\ verb' = [verb EXCEPT ![p] = "none"]
    /\ UNCHANGED <<seqVars, seen, outside>>

\* defer f.lock.Unlock() / f.lock.RUnlock(): the call returns.
Release(p) ==
    /\ alive /\ pc[p] = "unlock"
    /\ held' = [held EXCEPT ![p] = "none"]
    /\ pc' = [pc EXCEPT ![p] = "idle"]
    /\ verb' = [verb EXCEPT ![p] = "none"]
    /\ UNCHANGED <<seqVars, seen, outside>>

\* A panic runs the deferred f.lock.Unlock() / f.lock.RUnlock() of the
\* goroutine and then ends the program: the call never returns.
Unwind(p) ==
    /\ pc[p] = "panic"
    /\ held' = [held EXCEPT ![p] = "none"]
    /\ pc' = [pc EXCEPT ![p] = "crashed"]
    /\ UNCHANGED <<seqVars, verb, seen, outside>>

NextLock ==
    \E p \in Procs :
        \/ CallVerb(p)
        \/ Acquire(p)
        \/ BodyPut(p)
        \/ BodyRemove(p)
        \/ BodyMkdir(p)
        \/ BodyRmdir(p)
        \/ BodyPurge(p)
        \/ BodyMove(p)
        \/ BodyCopy(p)
        \/ BodyDirMove(p)
        \/ BodyMergeDirs(p)
        \/ BodyList(p)
        \/ BodyNewObject(p)
        \/ BodyAbout(p)
        \/ BodyPublicLink(p)
        \/ BodyDirCacheFlush(p)
        \/ Release(p)
        \/ Unwind(p)

SpecLock == InitLock /\ [][NextLock]_vars

\* A goroutine enters one of the verbs that take f.lock.
CallLocked(p) ==
    /\ alive /\ pc[p] = "idle" /\ Started < MaxConcOps
    /\ \E v \in Verbs \ Unlocked : verb' = [verb EXCEPT ![p] = v]
    /\ pc' = [pc EXCEPT ![p] = "lock"]
    /\ UNCHANGED <<seqVars, held, seen, outside>>

\* What a goroutine does once it has the lock: the body of its verb, then
\* the deferred unlock.
Proceed(p) ==
    \/ BodyPut(p)
    \/ BodyMkdir(p)
    \/ BodyRmdir(p)
    \/ BodyPurge(p)
    \/ BodyMove(p)
    \/ BodyCopy(p)
    \/ BodyDirMove(p)
    \/ BodyMergeDirs(p)
    \/ BodyList(p)
    \/ BodyNewObject(p)
    \/ BodyAbout(p)
    \/ BodyPublicLink(p)
    \/ Release(p)

\* The scheduler runs goroutine p: it leaves the body of its verb, or its
\* deferred unlock.  Under NextLocked these are the steps of Proceed(p),
\* and Proceed(p) is enabled wherever p is in a body or at its unlock.
Scheduled(p) ==
    \/ pc[p] = "body" /\ pc' = [pc EXCEPT ![p] = "unlock"]
    \/ pc[p] = "unlock" /\ pc' = [pc EXCEPT ![p] = "idle"]

NextLocked ==
    \E p \in Procs :
        \/ CallLocked(p)
        \/ Acquire(p)
        \/ Proceed(p)

\* SpecLocked: two goroutines call the verbs that take f.lock, readers and
\* writers in any mix, under a fair scheduler.  A goroutine that can run
\* does run, and every remote call returns (a body is one step).  A
\* goroutine blocked in Lock or RLock gets the lock when it is available
\* again and again: a sync.RWMutex with a blocked Lock call admits no new
\* readers.
SpecLocked ==
    /\ InitLock /\ [][NextLocked]_vars
    /\ \A p \in Procs : SF_vars(Acquire(p)) /\ WF_pc(Scheduled(p))

----------------------------------------------------------------------------
(* The properties checked *)

\* The directory a path lies in as its caller means it: the path without
\* its last segment, the root for a path of one segment.
ParentOf(p) == SubSeq(p, 1, Len(p) - 1)

AllOK(calls) == \A i \in DOMAIN calls : calls[i].ok

Issued(calls, c) == {i \in DOMAIN calls : calls[i].call = c}

\* C1: after any sequence of Put, Copy, Move, Document.Remove, Mkdir, Rmdir,
\* Purge and MergeDirs calls, the cached DocumentCount of every folder
\* reachable in the tree, the root included, is the number of live
\* documents the remote store holds directly in that folder.
C1_CountsMatchRemote ==
    (alive /\ tree.built) =>
        \A n \in Reach(tree, Root) : tree.cnt[n] = Cardinality(DocsIn(remote, n))

\* C2: a successful Move of a document listed in folder A to a path directly
\* under another folder B (either may be the root) takes 1 from A's cached
\* count, adds 1 to B's and changes no other count.
C2_MoveShiftsOneCount ==
    (last.op = "Move" /\ last.err = "none" /\ last.src.kind = "doc" /\ last.path # <<>>) =>
        LET A == GetFolder(last.base, ParentOf(last.src.remote))
            B == GetFolder(last.base, ParentOf(last.path))
        IN  (A # NotFound /\ B # NotFound /\ A # B) =>
                tree.cnt = [last.base.cnt EXCEPT ![A] = @ - 1, ![B] = @ + 1]

\* C3 as stated: a Put into folder F and then Remove of the document Put
\* returned leave F's cached count at its value before the Put, whether or
\* not F held a document of that name.
C3_PutRemoveRestoresCount ==
    (last.op = "Remove" /\ last.err = "none" /\ last.put # NoPut) =>
        tree.cnt[last.put.parent] = last.put.before

\* C3: a Put into folder F and then Remove of the document Put returned
\* leave F's cached count at its value before the Put less the number of
\* same-named documents the Put deleted.
C3_PutRemoveCountLessReplaced ==
    (last.op = "Remove" /\ last.err = "none" /\ last.put # NoPut) =>
        tree.cnt[last.put.parent] = last.put.before - last.put.replaced

\* A Put has replaced a document and the document it returned is removed.
C3_Witness ==
    last.op = "Remove" /\ last.err = "none" /\ last.put # NoPut /\ last.put.replaced = 1

\* C4: for every path p whose parent exists in the cache, a single-segment
\* p under the root included, Mkdir(p) with no failing remote call returns
\* success and appends exactly one node named base(p) to the parent's
\* children.
C4_MkdirAppendsOne ==
    (last.op = "Mkdir" /\ last.base.built /\ last.path # <<>> /\ AllOK(last.calls)) =>
        LET parent == GetFolder(last.base, ParentOf(last.path))
        IN  parent # NotFound =>
              /\ last.err = "none"
              /\ Len(tree.kids[parent]) = Len(last.base.kids[parent]) + 1
              /\ SubSeq(tree.kids[parent], 1, Len(last.base.kids[parent]))
                     = last.base.kids[parent]
              /\ tree.name[tree.kids[parent][Len(tree.kids[parent])]] = PathBase(last.path)

\* C5: Rmdir(p) on a folder whose recursive cached document count is above
\* zero returns the not-empty error and leaves every children list and
\* every count as it was.
C5_RmdirNotEmpty ==
    (last.op = "Rmdir" /\ last.base.built /\ last.path # <<>>) =>
        LET n == GetFolder(last.base, last.path)
        IN  (n # NotFound /\ documentsTotalCount(last.base, n) > 0) =>
                last.err = "notEmpty" /\ tree = last.base

\* A call of Mkdir, Rmdir, Purge, Move, Copy, DirMove or MergeDirs one of
\* whose remote calls failed.
C6_FailedCall ==
    /\ last.op \in {"Mkdir", "Rmdir", "Purge", "Move", "Copy", "DirMove", "MergeDirs"}
    /\ ~AllOK(last.calls)

C7_LockModes ==
    LET InBody(p) == pc[p] \in {"body", "unlock"}
    IN  /\ \A p \in Procs : (InBody(p) /\ verb[p] \in Mutating) => held[p] = "W"
        /\ \A p \in Procs : (InBody(p) /\ verb[p] \in ReadOnly) => held[p] = "R"
        /\ \A p, q \in Procs :
              (p # q /\ InBody(p) /\ InBody(q)) =>
                  ~(verb[p] \in Mutating /\ verb[q] \in Mutating)

\* C8: with calls running concurrently, every write to the tree pointer, a
\* children list or a DocumentCount is made by a goroutine that holds
\* f.lock exclusively.
C8_WritesUnderExclusiveLock ==
    (last.op # "none" /\ tree # last.pre) => last.held = "W"

\* C9: Move, Copy and DirMove issue a remote move exactly when the parent
\* directories of source and destination differ, a remote rename exactly
\* when the basenames differ, and the move before the rename.
C9_MoveThenRename ==
    (/\ last.op \in {"Move", "Copy", "DirMove"}
     /\ last.base.built /\ AllOK(last.calls) /\ last.err # "panic"
     /\ last.path # <<>> /\ last.src.remote # <<>>
     /\ (last.op = "DirMove" <=> last.src.kind # "doc")
     /\ (last.op = "DirMove" => GetFolder(last.base, last.src.remote) # NotFound)
     /\ GetFolder(last.base, ParentOf(last.path)) # NotFound) =>
        LET mv == Issued(last.calls, "Move")
            rn == Issued(last.calls, "RenameDocument") \cup Issued(last.calls, "RenameFolder")
        IN  /\ (mv # {}) <=> (ParentOf(last.src.remote) # ParentOf(last.path))
            /\ (rn # {}) <=> (PathBase(last.src.remote) # PathBase(last.path))
            /\ Cardinality(mv) <= 1 /\ Cardinality(rn) <= 1
            /\ \A i \in mv, j \in rn : i < j

\* C10: when a parent has two or more empty children named n, Rmdir(parent/n)
\* with no failing remote call deletes each of them remotely, returns
\* success and leaves the parent's children without any folder named n, the
\* others in their order.
C10_RmdirDeletesAllNamed ==
    (last.op = "Rmdir" /\ last.base.built /\ last.path # <<>> /\ AllOK(last.calls)) =>
        LET parent == GetFolder(last.base, ParentOf(last.path))
            n      == PathBase(last.path)
            named  == IF parent = NotFound THEN {}
                      ELSE {g \in SeqRange(last.base.kids[parent]) : last.base.name[g] = n}
        IN  (Cardinality(named) >= 2
               /\ \A g \in named : documentsTotalCount(last.base, g) = 0) =>
              /\ last.err = "none"
              /\ \A g \in named : \E i \in Issued(last.calls, "Delete") :
                     last.calls[i].ok /\ last.calls[i].folders = {g}
              /\ tree.kids[parent]
                     = SelectSeq(last.base.kids[parent], LAMBDA g : last.base.name[g] # n)

\* The names of the first n remote calls of a call.
CallNames(calls, n) ==
    [i \in 1 .. (IF Len(calls) < n THEN Len(calls) ELSE n) |-> calls[i].call]

TreeReads == <<"ListFolders", "ListDocuments", "GetProfile">>

C12_BuildIsNoOpOnceBuilt ==
    (/\ last.pre.built
     /\ last.op \in Mutating \cup ReadOnly
     /\ last.err # "mandatoryOption") =>
        /\ Issued(last.calls, "ListFolders") = {}
        /\ Issued(last.calls, "GetProfile") # {} => last.op = "About"
        /\ Issued(last.calls, "ListDocuments") # {} => (last.op = "List" /\ last.path = <<>>)
        /\ last.base = last.pre
        /\ (last.op = "List" /\ last.err = "none") =>
              LET kids == last.pre.kids[GetFolder(last.pre, last.path)]
                  dirs == SelectSeq(last.entries, LAMBDA e : e.kind = "dir")
              IN  [i \in DOMAIN dirs |-> dirs[i].id] = kids

\* List of a directory in which another client has created a folder since
\* the tree was built.
C12_Witness ==
    /\ last.op = "List" /\ last.err = "none" /\ last.pre.built
    /\ \E g \in outside :
          /\ g \notin Reach(last.pre, Root)
          /\ remote.fold[g].parent = GetFolder(last.pre, last.path)

\* The folder a walk from the root along the segments segs reaches after i
\* of them, taking at each the first child, in children-list order, whose
\* name is the segment (decode: the segment with every "_" replaced by "/");
\* NotFound from the first segment on that has no such child.
RECURSIVE WalkTo(_, _, _, _)
WalkTo(t, segs, i, decode) ==
    IF i = 0 THEN Root
    ELSE LET prev == WalkTo(t, segs, i - 1, decode)
             want == IF decode THEN local2Remote(segs[i]) ELSE segs[i]
         IN  IF prev = NotFound THEN NotFound
             ELSE LET ks == t.kids[prev]
                      I  == {k \in DOMAIN ks : t.name[ks[k]] = want}
                  IN  IF I = {} THEN NotFound
                      ELSE ks[CHOOSE k \in I : \A j \in I : k <= j]

\* What GetFolder is to return for the string s.
Resolved(t, s, decode) ==
    LET trimmed == TrimSlashes(s)
        segs    == SplitSlash(trimmed)
    IN  IF trimmed = <<>> THEN Root ELSE WalkTo(t, segs, Len(segs), decode)

\* C13 as stated: GetFolder returns the root for a path that is empty once
\* trimmed of slashes, else the folder reached by taking at each segment the
\* first child whose name equals the segment exactly, and not-found exactly
\* when some segment has no such child.
C13_ResolvesByExactName ==
    last.op = "GetFolder" =>
        last.obj.id = Resolved(last.pre, last.path, FALSE)

\* C13: GetFolder returns the root for a path that is empty once trimmed of
\* slashes, else the folder reached by taking at each segment the first
\* child whose name equals the segment with every "_" replaced by "/", and
\* not-found exactly when some segment has no such child.
C13_ResolvesByDecodedName ==
    last.op = "GetFolder" =>
        /\ last.obj.id = Resolved(last.pre, last.path, TRUE)
        /\ (last.err = "dirNotFound") <=> (last.obj.id = NotFound)

\* A path with a "_" in it has resolved to a folder.
C13_Witness ==
    /\ last.op = "GetFolder" /\ last.obj.id \notin {NotFound, Root}
    /\ \E i \in DOMAIN last.path : last.path[i] = SlashReplacement

C15_RoundTrip ==
    last.op = "local2Remote" => last.obj.remote = last.path

\* C16: in every cache state, the unset tree that DirCacheFlush leaves
\* included, Document.Remove returns success when Trash succeeds, with the
\* parent's cached count one lower when GetFolder finds the parent of the
\* document's path and the cache as it was when it does not; when Trash
\* fails it returns the error and the cache is as it was.
C16_RemoveAlwaysReturns ==
    last.op = "Remove" =>
        LET parent == IF last.pre.built
                      THEN GetFolder(last.pre, PathDir(last.src.remote)) ELSE NotFound
        IN  IF AllOK(last.calls)
            THEN /\ last.err = "none"
                 /\ alive
                 /\ tree = IF parent = NotFound THEN last.pre
                           ELSE AddCount(last.pre, parent, -1)
            ELSE /\ last.err = "remote"
                 /\ tree = last.pre

C18_MissingFolderNotFound ==
    (last.op \in {"Rmdir", "Purge"} /\ last.base.built) =>
        LET P == GetFolder(last.base, ParentOf(last.path))
        IN  (/\ P # NotFound
             /\ \A g \in SeqRange(last.base.kids[P]) :
                   last.base.name[g] # PathBase(last.path)) =>
                /\ last.err \in {"notFound", "dirNotFound"}
                /\ GetFolder(last.base, PathDir(last.path)) # NotFound =>
                       last.err = "notFound"
                /\ Issued(last.calls, "Delete") = {}
                /\ tree.kids[P] = last.base.kids[P]
                /\ tree = last.base

\* Rmdir has looked for a missing name among two children or more.
C18_Witness ==
    /\ last.op = "Rmdir" /\ last.err = "notFound"
    /\ Len(last.path) = 2
    /\ GetFolder(last.base, ParentOf(last.path)) # NotFound
    /\ Len(last.base.kids[GetFolder(last.base, ParentOf(last.path))]) >= 2
    /\ tree = last.base

\* C19: a Put whose parent directory is found and whose SearchDocuments,
\* CreateDocument and Delete calls all succeed returns the document it
\* created and no error.
C19_PutReturnsCreatedEntry ==
    (/\ last.op = "Put"
     /\ AllOK(last.calls)
     /\ Issued(last.calls, "SearchDocuments") # {}
     /\ Issued(last.calls, "CreateDocument") # {}
     /\ Issued(last.calls, "Delete") # {}) =>
        /\ last.err = "none"
        /\ last.obj.kind = "doc"
        /\ last.obj.remote = last.path

\* C20: every Move and every Copy that returns no error returns the
\* destination object, a document whose remote is the destination path
\* asked for, whether the base name changes or only the parent does.
C20_MoveCopyReturnDestination ==
    (last.op \in {"Move", "Copy"} /\ last.err = "none") =>
        /\ last.obj # NoObj
        /\ last.obj.kind = "doc"
        /\ last.obj.remote = last.path

\* C21: Mkdir(p) of a path p that GetFolder already finds in the cache
\* returns no error when none of its remote calls fails.
C21_MkdirOfExistingSucceeds ==
    (/\ last.op = "Mkdir"
     /\ last.base.built
     /\ GetFolder(last.base, last.path) # NotFound
     /\ AllOK(last.calls)) =>
        last.err = "none"

\* C22: DirMove to a destination path that GetFolder already finds in the
\* cache returns fs.ErrorDirExists and calls neither Move nor RenameFolder.
C22_DirMoveOntoExisting ==
    (/\ last.op = "DirMove"
     /\ last.base.built
     /\ GetFolder(last.base, last.path) # NotFound) =>
        /\ last.err = "dirExists"
        /\ Issued(last.calls, "Move") = {}
        /\ Issued(last.calls, "RenameFolder") = {}

\* C23: DirMove whose source parent and destination parent are both in
\* the cache and whose remote calls all succeed returns no error, and when
\* the two parents differ the source parent's children list is the old
\* one without the moved folder, the other children in their order.
C23_DirMoveDetachesFolder ==
    (last.op = "DirMove" /\ last.base.built) =>
        LET sp == GetFolder(last.base, ParentOf(last.src.remote))
            dp == GetFolder(last.base, ParentOf(last.path))
        IN  (/\ last.src.remote # <<>> /\ last.path # <<>>
             /\ sp # NotFound /\ dp # NotFound
             /\ AllOK(last.calls)) =>
                /\ last.err = "none"
                /\ sp # dp =>
                      tree.kids[sp] = SelectSeq(last.base.kids[sp],
                                                LAMBDA g : g # last.src.id)

\* The identifiers of dirs[1:], the source folders of a MergeDirs call.
MergeSources == {last.dirs[i].id : i \in 2 .. Len(last.dirs)}

\* C24: MergeDirs of two different directories or more calls Move at most once, into
\* dirs[0], with all child folders of dirs[1:], after which no document is
\* left in dirs[1:]; it calls Delete at most once, on the folders dirs[1:],
\* and only after a Move that succeeded; after a failed resolve or a failed
\* SearchDocuments neither Move nor Delete is called, and after a failed
\* Move no Delete.
C24_MergeMovesThenDeletes ==
    (/\ last.op = "MergeDirs" /\ last.base.built /\ Len(last.dirs) >= 2
     /\ last.dirs[1].id \notin MergeSources) =>
        LET mv == Issued(last.calls, "Move")
            dl == Issued(last.calls, "Delete")
            se == Issued(last.calls, "SearchDocuments")
        IN  /\ Cardinality(mv) <= 1 /\ Cardinality(dl) <= 1
            /\ \A i \in mv :
                  /\ last.calls[i].target = last.dirs[1].id
                  /\ last.calls[i].folders =
                        UNION {SeqRange(last.base.kids[s]) : s \in MergeSources}
                  /\ last.calls[i].ok =>
                        \A s \in MergeSources \cap DOMAIN remote.fold :
                            DocsIn(remote, s) = {}
            /\ \A j \in dl :
                  /\ last.calls[j].folders = MergeSources
                  /\ \E i \in mv : i < j /\ last.calls[i].ok
            /\ (last.err = "dirNotFound" \/ \E i \in se : ~last.calls[i].ok) =>
                  mv = {} /\ dl = {}
            /\ (\E i \in mv : ~last.calls[i].ok) => dl = {}
            /\ last.err = "none" => (mv # {} /\ dl # {} /\ AllOK(last.calls))

\* The sum of documentsTotalCount over the folders S of the cache t.
RECURSIVE SumTotals(_, _)
SumTotals(t, S) ==
    IF S = {} THEN 0
    ELSE LET g == CHOOSE x \in S : TRUE
         IN  documentsTotalCount(t, g) + SumTotals(t, S \ {g})

\* C25: Purge(p), when the parent of p is in the cache with a child named
\* base(p) and no remote call fails, deletes every such child remotely
\* whatever its cached count, returns no error, and leaves the parent's
\* children without them: p is no longer found and the recursive count of
\* the parent and of each of its ancestors is lower by theirs.
C25_PurgeDeletesAndDetaches ==
    (last.op = "Purge" /\ last.base.built /\ last.path # <<>>) =>
        LET P     == GetFolder(last.base, ParentOf(last.path))
            named == IF P = NotFound THEN {}
                     ELSE {g \in SeqRange(last.base.kids[P]) :
                              last.base.name[g] = PathBase(last.path)}
        IN  (P # NotFound /\ named # {} /\ AllOK(last.calls)) =>
                /\ last.err = "none"
                /\ \A g \in named :
                      \E i \in Issued(last.calls, "Delete") : last.calls[i].folders = {g}
                /\ named \cap DOMAIN remote.fold = {}
                /\ tree.kids[P] = SelectSeq(last.base.kids[P], LAMBDA g : g \notin named)
                /\ GetFolder(tree, last.path) = NotFound
                /\ \A n \in Reach(last.base, Root) :
                      P \in Reach(last.base, n) =>
                          documentsTotalCount(tree, n) =
                              documentsTotalCount(last.base, n) - SumTotals(last.base, named)

\* C26: a call made with f.tree set leaves it set and issues no read of the
\* tree build, unless the call is DirCacheFlush, which unsets it; a call
\* that resolves a path (every verb of the Fs that builds the tree, and
\* Document.Remove once Trash has succeeded) and is made with f.tree unset
\* first issues the reads of the tree build, all three when none fails,
\* and sets f.tree before it resolves anything.
C26_TreeReplacedOnlyByFlush ==
    /\ (last.op \in Verbs /\ last.pre.built) =>
          IF last.op = "DirCacheFlush" THEN tree = NoTree
          ELSE /\ tree.built
               /\ last.base = last.pre
               /\ Issued(last.calls, "ListFolders") = {}
    /\ (/\ \/ last.op \in Mutating \cup ReadOnly
           \/ last.op = "Remove" /\ AllOK(last.calls)
        /\ ~last.pre.built
        /\ last.err # "mandatoryOption") =>
          /\ last.calls # <<>>
          /\ CallNames(last.calls, 3) = SubSeq(TreeReads, 1, Len(CallNames(last.calls, 3)))
          /\ last.err # "buildTree" =>
                (CallNames(last.calls, 3) = TreeReads /\ last.base.built /\ tree.built)

\* C27: when the remote Move of a Copy fails, the error Copy returns
\* wraps the error of that Move, whether or not the source parent is
\* found for the count update.
C27_CopyReturnsMoveFailure ==
    (last.op = "Copy" /\ \E i \in Issued(last.calls, "Move") : ~last.calls[i].ok) =>
        last.err = "remote"

\* C28: a remote call that fails is the last remote call of its operation,
\* so that nothing is retried and no create, move, rename, copy, delete or
\* trash follows a failure, and the operation returns an error.
C28_NothingAfterFailedCall ==
    last.op \in Verbs =>
        /\ \A i \in DOMAIN last.calls : ~last.calls[i].ok => i = Len(last.calls)
        /\ ~AllOK(last.calls) => last.err # "none"

\* A Copy to another parent under another name whose remote Move has
\* failed after CopyDocuments: no RenameDocument follows.
C28_Witness ==
    /\ last.op = "Copy"
    /\ PathBase(last.src.remote) # PathBase(last.path)
    /\ Issued(last.calls, "CopyDocuments") # {}
    /\ \E i \in Issued(last.calls, "Move") : ~last.calls[i].ok
    /\ Issued(last.calls, "RenameDocument") = {}

\* C29: NewObject(p) with no failing remote call returns the first
\* document named base(p) that the store lists in the parent of p; with no
\* such document, fs.ErrorIsDir when the cache has a child folder of that
\* name under the parent; fs.ErrorObjectNotFound otherwise and when the
\* parent is not in the cache; the cache is left as it was in every case.
C29_NewObjectFindsByName ==
    (last.op = "NewObject" /\ last.base.built) =>
        /\ tree = last.base
        /\ AllOK(last.calls) =>
              LET P == GetFolder(last.base, ParentOf(last.path))
                  M == IF P = NotFound THEN {}
                       ELSE {d \in DocsIn(remote, P) :
                                remote.docs[d].name = PathBase(last.path)}
              IN  IF P = NotFound THEN last.err = "objectNotFound"
                  ELSE IF M # {} THEN
                      /\ last.err = "none"
                      /\ last.obj = [kind |-> "doc", remote |-> last.path,
                                     id |-> CHOOSE d \in M : \A e \in M : d <= e]
                  ELSE IF \E g \in SeqRange(last.base.kids[P]) :
                             last.base.name[g] = PathBase(last.path)
                  THEN last.err = "isDir"
                  ELSE last.err = "objectNotFound"

\* The sum of the cached DocumentCount over the folders S of the cache t.
RECURSIVE SumCounts(_, _)
SumCounts(t, S) ==
    IF S = {} THEN 0
    ELSE LET g == CHOOSE x \in S : TRUE
         IN  t.cnt[g] + SumCounts(t, S \ {g})

\* C30: Folder.Items issues no remote call, leaves the cache as it is, and
\* returns the sum of the cached DocumentCount over the folder and every
\* folder below it in the cache; against what it would have returned
\* before the last call, the difference is the sum of that call's patches
\* in the subtree.
C30_ItemsIsCachedSubtreeSum ==
    last.op = "Items" =>
        /\ last.calls = <<>>
        /\ tree = last.pre
        /\ last.items = SumCounts(tree, Reach(tree, last.src.id))
        /\ (last.base.built /\ last.src.id \in Reach(last.base, Root)) =>
              last.items - documentsTotalCount(last.base, last.src.id) =
                  SumCounts(tree, Reach(tree, last.src.id))
                      - SumCounts(last.base, Reach(last.base, last.src.id))

\* Items of a folder with folders below it, after a call that has changed
\* a count in its subtree.
C30_Witness ==
    /\ last.op = "Items"
    /\ last.base.built /\ last.src.id \in Reach(last.base, Root)
    /\ tree.kids[last.src.id] # <<>>
    /\ last.items # documentsTotalCount(last.base, last.src.id)
    /\ last.items # tree.cnt[last.src.id]

\* No two folders of one name under one folder of the cache, and no two
\* documents of one name in one folder of the store.
UniqueSiblingNames ==
    /\ \A n \in Reach(tree, Root) :
          \A i, j \in DOMAIN tree.kids[n] :
              tree.name[tree.kids[n][i]] = tree.name[tree.kids[n][j]] => i = j
    /\ \A d, e \in DOMAIN remote.docs :
          (remote.docs[d].parent = remote.docs[e].parent
             /\ remote.docs[d].name = remote.docs[e].name) => d = e

\* C31: with no two siblings of one name, an entry that List has returned
\* is found again by its Remote(): GetFolder returns the node of a folder
\* entry and NewObject the document of a document entry, entries of the
\* root and names with '/' or '_' included.
C31_ListedEntriesResolve ==
    (last.op = "Lookup" /\ UniqueSiblingNames) =>
        /\ last.err = "none"
        /\ last.obj.kind = last.src.kind
        /\ last.obj.id = last.src.id

\* C32: after a DirMove of folder X from srcRemote to another path
\* dstRemote that returns no error, GetFolder(dstRemote) returns X with the
\* children it had, and GetFolder(srcRemote) does not return X, whether the
\* parent changes or only the name.
C32_DirMoveRelocatesInCache ==
    (/\ last.op = "DirMove" /\ last.err = "none"
     /\ last.src.kind = "dir" /\ last.src.remote # last.path) =>
        /\ GetFolder(tree, last.path) = last.src.id
        /\ last.src.id \in DOMAIN tree.kids
        /\ tree.kids[last.src.id] = last.base.kids[last.src.id]
        /\ GetFolder(tree, last.src.remote) # last.src.id

\* C33: from a store with no two sibling folders of one name, after any
\* sequence of Mkdir, Rmdir, Purge, DirMove and MergeDirs calls no children
\* list of the cache holds two folders of one name; a Mkdir of a name the
\* parent already has appends nothing.
C33_SiblingNamesStayUnique ==
    (alive /\ tree.built) =>
        \A n \in Reach(tree, Root) :
            \A i, j \in DOMAIN tree.kids[n] :
                tree.name[tree.kids[n][i]] = tree.name[tree.kids[n][j]] => i = j

\* C34: an Rmdir that returns the not-empty error has called no Delete,
\* also when several children have the name asked for and only some of
\* them hold documents.
C34_NotEmptyDeletesNothing ==
    (last.op = "Rmdir" /\ last.err = "notEmpty") =>
        Issued(last.calls, "Delete") = {}

\* C35: whenever GetFolder(p) finds a folder n below the root, Purge(p),
\* and Rmdir(p) when n is empty, with no failing remote call, do not
\* return a not-found error and call Delete on n; and the folders they
\* call Delete on are children GetFolder would match for the last segment
\* of p, those named as the segment with every '_' replaced by '/'.
C35_RmdirMatchesLikeGetFolder ==
    (last.op \in {"Rmdir", "Purge"} /\ last.base.built /\ AllOK(last.calls)) =>
        LET n  == GetFolder(last.base, last.path)
            dl == Issued(last.calls, "Delete")
        IN  /\ (/\ n \notin {NotFound, Root}
                /\ last.op = "Rmdir" => documentsTotalCount(last.base, n) = 0) =>
                  /\ last.err \notin {"notFound", "dirNotFound"}
                  /\ \E i \in dl : n \in last.calls[i].folders
            /\ \A i \in dl : \A g \in last.calls[i].folders :
                  last.base.name[g] = local2Remote(remote2Local(PathBase(last.path)))

\* C36: a call to a locked verb takes f.lock once, only when it does not
\* hold it, holds it in the mode of its verb while its body runs, and holds
\* nothing once it has returned; so under a fair scheduler and with remote
\* calls that return, every call that was started returns and the lock is
\* free again and again.
C36_EveryCallReturnsAndFreesLock ==
    /\ [](\A p \in Procs :
            /\ pc[p] \in {"idle", "lock"} => held[p] = "none"
            /\ pc[p] \in {"body", "unlock"} => held[p] = LockMode(verb[p]))
    /\ \A p \in Procs : (pc[p] # "idle") ~> (pc[p] = "idle")
    /\ []<>(\A p \in Procs : held[p] = "none")

\* A writer is blocked in Lock while the other goroutine, whose body has
\* just run, still holds the lock and is about to unlock.
C36_WriterWaitsForHolder ==
    \E p, q \in Procs :
        /\ p # q
        /\ pc[p] = "lock" /\ LockMode(verb[p]) = "W"
        /\ pc[q] = "unlock" /\ held[q] \in {"R", "W"}
        /\ last.op = verb[q]

====
